---- MODULE Spec2Model ----
(***************************************************************************)
(* Call-status reconciliation engine of whocalledme: the ElevenLabs        *)
(* webhook handler (src/app/api/webhooks/elevenlabs/route.ts), the         *)
(* datastore operations it uses (src/lib/supabase/lookups.ts and the       *)
(* call-attempt operations of src/unnamed/part_012), the lookup action     *)
(* (src/app/actions/lookup.ts) and the status endpoint                     *)
(* (src/app/api/lookups/[id]/status/route.ts).                             *)
(*                                                                         *)
(* JavaScript strings are TLA+ strings, read character by character with   *)
(* Len/SubSeq.  JSON values are tagged records [t |-> type, v |-> value],  *)
(* so that typeof tests, ?? and property probing are computed as the code  *)
(* computes them.                                                          *)
(***************************************************************************)
EXTENDS Integers, Sequences, FiniteSets, TLC

VARIABLES
  secret,    \* process.env.ELEVENLABS_WEBHOOK_SECRET, fixed when the process starts
  lookups,   \* table phone_lookups: sequence of rows, the id is the index
  attempts,  \* table call_attempts: one slot per lookup id, NoRow when absent
  profiles,  \* table phone_profiles: one slot per normalized number
  now,       \* wall clock / database clock (strictly increasing ticks)
  last,      \* the last request handled: its input, response and datastore access log
  reads,     \* status endpoint: an earlier response and the latest one
  race,      \* concurrently running webhook handlers (specification SpecRace)
  fetch,     \* a status request the server is handling (specification SpecRetry)
  client     \* the poller of the lookup form (specification SpecClient)

vars == <<secret, lookups, attempts, profiles, now, last, reads, race, fetch, client>>

(***************************************************************************)
(* Bounds of the model.                                                    *)
(***************************************************************************)
MaxLookups == 2
MaxClock == 6
MaxPolls == 2

(***************************************************************************)
(* JavaScript strings.                                                     *)
(***************************************************************************)
UpperChars == "ABCDEFGHIJKLMNOPQRSTUVWXYZ"
LowerChars == "abcdefghijklmnopqrstuvwxyz"

CharAt(s, i) == SubSeq(s, i, i)

\* the lower-case letter of every upper-case letter
LowerOf == [i \in 1..Len(UpperChars) |-> CharAt(LowerChars, i)]
UpperIndex == [c \in {CharAt(UpperChars, i) : i \in 1..Len(UpperChars)} |->
                 CHOOSE j \in 1..Len(UpperChars) : CharAt(UpperChars, j) = c] @@ <<>>

LowerChar(c) == IF c \in DOMAIN UpperIndex THEN LowerOf[UpperIndex[c]] ELSE c

RECURSIVE toLowerCase(_)
toLowerCase(s) ==
  IF Len(s) = 0 THEN ""
  ELSE LowerChar(CharAt(s, 1)) \o toLowerCase(SubSeq(s, 2, Len(s)))

includes(s, sub) ==
  \E i \in 1..(Len(s) - Len(sub) + 1) : SubSeq(s, i, i + Len(sub) - 1) = sub

startsWith(s, pre) == Len(s) >= Len(pre) /\ SubSeq(s, 1, Len(pre)) = pre

IsSpace(c) == c \in {" ", "\t", "\n"}

RECURSIVE trimStart(_)
trimStart(s) ==
  IF Len(s) > 0 /\ IsSpace(CharAt(s, 1)) THEN trimStart(SubSeq(s, 2, Len(s))) ELSE s

RECURSIVE trimEnd(_)
trimEnd(s) ==
  IF Len(s) > 0 /\ IsSpace(CharAt(s, Len(s))) THEN trimEnd(SubSeq(s, 1, Len(s) - 1)) ELSE s

trim(s) == trimEnd(trimStart(s))

\* String.prototype.split(sep) for a one-character separator: a sequence of strings
RECURSIVE splitFrom(_, _, _)
splitFrom(s, sep, acc) ==
  IF Len(s) = 0 THEN <<acc>>
  ELSE IF CharAt(s, 1) = sep
       THEN <<acc>> \o splitFrom(SubSeq(s, 2, Len(s)), sep, "")
       ELSE splitFrom(SubSeq(s, 2, Len(s)), sep, acc \o CharAt(s, 1))

split(s, sep) == splitFrom(s, sep, "")

(***************************************************************************)
(* JSON values and the probing helpers of the webhook route.               *)
(***************************************************************************)
Undefined == [t |-> "undefined"]
Null == [t |-> "null"]
JStr(s) == [t |-> "str", v |-> s]
JNum(n) == [t |-> "num", v |-> n]
JBool(b) == [t |-> "bool", v |-> b]
JObj(r) == [t |-> "obj", v |-> r]
JArr(q) == [t |-> "arr", v |-> q]
EmptyObject == JObj(<<>>)

IsString(x) == x.t = "str"
IsNullish(x) == x.t \in {"undefined", "null"}

\* a ?? b
Coalesce(a, b) == IF IsNullish(a) THEN b ELSE a

\* JavaScript truthiness of a JSON value
Truthy(x) ==
  CASE x.t = "undefined" -> FALSE
    [] x.t = "null" -> FALSE
    [] x.t = "str" -> Len(x.v) > 0
    [] x.t = "num" -> x.v # 0
    [] x.t = "bool" -> x.v
    [] OTHER -> TRUE

\* property access o.k on a PlainObject (an array has none of the probed keys)
Get(o, k) == IF o.t = "obj" /\ k \in DOMAIN o.v THEN o.v[k] ELSE Undefined

toPlainObject(x) == IF x.t \in {"obj", "arr"} THEN x ELSE EmptyObject

\* typeof v === "string" ? v : otherwise
StringOr(x, otherwise) == IF IsString(x) THEN x ELSE otherwise

(***************************************************************************)
(* Signature Verifier (verifyHmacSignature).  HMAC-SHA256 is modelled by   *)
(* an injective stand-in: the hex digest of (key, message) is a lower-case *)
(* string determined by the pair, and the base64 form is a different,      *)
(* case-sensitive string ending in the "=" padding that the base64 of a    *)
(* 32-byte digest always has.                                              *)
(***************************************************************************)
hmacSha256Hex(key, message) == "hx" \o key \o ":" \o message

base64OfHex(hex) == "B64" \o SubSeq(hex, 3, Len(hex)) \o "="

\* candidate.replace(/^sha256=/i, "")
stripSha256Prefix(s) ==
  IF startsWith(toLowerCase(s), "sha256=") THEN SubSeq(s, 8, Len(s)) ELSE s

\* signatureHeader.split(",").reduce(...): key/value map of the header parts
RECURSIVE headerParts(_, _)
headerParts(partSeq, acc) ==
  IF Len(partSeq) = 0 THEN acc
  ELSE LET fields == split(Head(partSeq), "=")
           key == fields[1]
           value == IF Len(fields) >= 2 THEN fields[2] ELSE ""
       IN IF Len(key) > 0 /\ Len(value) > 0
          THEN headerParts(Tail(partSeq), (trim(key) :> trim(value)) @@ acc)
          ELSE headerParts(Tail(partSeq), acc)

PartOf(parts, k) == IF k \in DOMAIN parts THEN JStr(parts[k]) ELSE Undefined

\* a verifier that accepts any header carrying both parts, the comparison left out
verifyHmacSignature_presence(webhookSecret, rawBody, signatureHeader) ==
  IF ~Truthy(webhookSecret) THEN TRUE
  ELSE IF ~Truthy(signatureHeader) THEN FALSE
  ELSE Truthy(PartOf(headerParts(split(signatureHeader.v, ","), <<>>), "t"))
       /\ Truthy(PartOf(headerParts(split(signatureHeader.v, ","), <<>>), "v0"))

verifyHmacSignature(webhookSecret, rawBody, signatureHeader) ==
  IF ~Truthy(webhookSecret) THEN TRUE
  ELSE IF ~Truthy(signatureHeader) THEN FALSE
  ELSE
    LET parts == headerParts(split(signatureHeader.v, ","), <<>>)
        timestamp == PartOf(parts, "t")
        providedSignature ==
          Coalesce(Coalesce(PartOf(parts, "v0"), PartOf(parts, "v1")), PartOf(parts, "v2"))
    IN IF ~Truthy(timestamp) \/ ~Truthy(providedSignature) THEN FALSE
       ELSE
         LET payloadToSign == timestamp.v \o "." \o rawBody
             expectedHex == hmacSha256Hex(webhookSecret.v, payloadToSign)
             expectedBase64 == base64OfHex(expectedHex)
             candidates == <<providedSignature.v, stripSha256Prefix(providedSignature.v)>>
         IN \E i \in 1..Len(candidates) :
              LET candidate == candidates[i]
                  cleaned == stripSha256Prefix(candidate)
              IN \/ toLowerCase(cleaned) = expectedHex
                 \/ cleaned = expectedBase64
                 \/ toLowerCase(candidate) = expectedHex
                 \/ candidate = expectedBase64

(***************************************************************************)
(* Event classification of the webhook route.                              *)
(***************************************************************************)
\* a classification that reports a conversation in progress as calling
determineLookupStatus_progress(event, conversationStatus) ==
  IF Truthy(conversationStatus) /\ toLowerCase(conversationStatus.v) = "in-progress"
  THEN JStr("calling")
  ELSE IF Truthy(conversationStatus) /\ toLowerCase(conversationStatus.v) = "done"
  THEN JStr("cached")
  ELSE IF Truthy(conversationStatus) /\ toLowerCase(conversationStatus.v) = "failed"
  THEN JStr("failed")
  ELSE Undefined

\* event / conversationStatus are JSON strings or Undefined; the result is a
\* LookupStatus string or Undefined
determineLookupStatus(event, conversationStatus) ==
  LET hasStatus == Truthy(conversationStatus)
      status == IF hasStatus THEN toLowerCase(conversationStatus.v) ELSE ""
      hasEvt == Truthy(event)
      evt == IF hasEvt THEN toLowerCase(event.v) ELSE ""
  IN IF hasStatus /\ status \in {"completed", "succeeded", "success", "finished", "done"}
     THEN JStr("cached")
     ELSE IF hasEvt /\ (includes(evt, "completed") \/ includes(evt, "post_call_transcription"))
     THEN JStr("cached")
     ELSE IF hasStatus /\ status \in {"failed", "error", "cancelled", "canceled"}
     THEN JStr("failed")
     ELSE IF hasEvt /\ (includes(evt, "failed") \/ includes(evt, "error"))
     THEN JStr("failed")
     ELSE Undefined

(***************************************************************************)
(* lib/phone.ts                                                            *)
(***************************************************************************)
IsDigit(c) == c \in {"0", "1", "2", "3", "4", "5", "6", "7", "8", "9"}

RECURSIVE sanitize(_)
sanitize(s) ==
  IF Len(s) = 0 THEN ""
  ELSE IF CharAt(s, 1) \in {" ", "-", "(", ")", "."}
       THEN sanitize(SubSeq(s, 2, Len(s)))
       ELSE CharAt(s, 1) \o sanitize(SubSeq(s, 2, Len(s)))

\* parsePhoneNumber: the normalized number, or Null where the schema throws
parsePhoneNumber(input) ==
  LET trimmed == trim(input)
      stripped == sanitize(trimmed)
      value == IF startsWith(stripped, "00") THEN "+" \o SubSeq(stripped, 3, Len(stripped))
               ELSE stripped
      digits == SubSeq(value, 2, Len(value))
  IN IF Len(trimmed) < 10 \/ Len(trimmed) > 20 THEN Null
     ELSE IF /\ startsWith(value, "+")
             /\ Len(digits) >= 7 /\ Len(digits) <= 15
             /\ \A i \in 1..Len(digits) : IsDigit(CharAt(digits, i))
          THEN JStr(value)
          ELSE Null

(***************************************************************************)
(* Payload Normalizer: the locals POST derives from the parsed body        *)
(* before it touches the datastore.                                        *)
(***************************************************************************)
\* first element of a sequence of JSON values that is a string, else Null
RECURSIVE FirstString(_)
FirstString(q) ==
  IF Len(q) = 0 THEN Null
  ELSE IF IsString(Head(q)) THEN Head(q) ELSE FirstString(Tail(q))

\* Array.prototype.join on a sequence of strings
RECURSIVE join(_, _)
join(q, sep) ==
  IF Len(q) = 0 THEN ""
  ELSE IF Len(q) = 1 THEN q[1]
  ELSE q[1] \o sep \o join(Tail(q), sep)

joinLines(q) == join(q, "\n")

\* keeps the elements of a sequence of JSON values that are not Null
RECURSIVE dropNulls(_)
dropNulls(q) ==
  IF Len(q) = 0 THEN <<>>
  ELSE IF Head(q).t = "null" THEN dropNulls(Tail(q))
  ELSE <<Head(q)>> \o dropNulls(Tail(q))

\* toTranscriptMessages: sequence of [role, message] with role a JSON string or Undefined
RECURSIVE toTranscriptMessages(_)
toTranscriptMessages(entries) ==
  IF Len(entries) = 0 THEN <<>>
  ELSE
    LET object == toPlainObject(Head(entries))
        message == FirstString(<<Get(object, "message"), Get(object, "text"), Get(object, "content")>>)
        roleFound == FirstString(<<Get(object, "role"), Get(object, "speaker"), Get(object, "participant")>>)
        role == IF roleFound.t = "null" THEN Undefined ELSE roleFound
    IN IF ~Truthy(message) THEN toTranscriptMessages(Tail(entries))
       ELSE <<[role |-> role, message |-> message.v]>> \o toTranscriptMessages(Tail(entries))

\* the "speaker: content" line of one entry of conversation.messages, or Null
messageLine(entry) ==
  LET message == toPlainObject(entry)
      content == FirstString(<<Get(message, "content"), Get(message, "text"), Get(message, "message")>>)
      speaker == FirstString(<<Get(message, "role"), Get(message, "speaker")>>)
  IN IF ~Truthy(content) THEN Null
     ELSE IF Truthy(speaker) THEN JStr(speaker.v \o ": " \o content.v)
     ELSE content

\* extractTranscript: a JSON string or Null
extractTranscript(raw) ==
  LET conversation == toPlainObject(raw)
      messages == Get(conversation, "messages")
  IN IF IsString(Get(conversation, "transcript")) THEN Get(conversation, "transcript")
     ELSE IF messages.t = "arr"
     THEN LET parts == dropNulls([i \in 1..Len(messages.v) |-> messageLine(messages.v[i])])
          IN IF Len(parts) > 0
             THEN JStr(joinLines([i \in 1..Len(parts) |-> parts[i].v]))
             ELSE Null
     ELSE Null

\* summaryCandidates.find((text) => text && text.trim().length > 0) ?? null
RECURSIVE findSummary(_)
findSummary(q) ==
  IF Len(q) = 0 THEN Null
  ELSE IF IsString(Head(q)) /\ Len(Head(q).v) > 0 /\ Len(trim(Head(q).v)) > 0 THEN Head(q)
  ELSE findSummary(Tail(q))

\* first candidate that parsePhoneNumber accepts, or Null
RECURSIVE firstParsedNumber(_)
firstParsedNumber(q) ==
  IF Len(q) = 0 THEN Null
  ELSE IF ~Truthy(Head(q)) THEN firstParsedNumber(Tail(q))
  ELSE IF parsePhoneNumber(Head(q).v).t = "str" THEN parsePhoneNumber(Head(q).v)
  ELSE firstParsedNumber(Tail(q))

StrOrNull(x) == StringOr(x, Null)

\* the request-local values of POST, lines 941-1234
Normalize(payload) ==
  LET dataPayload == toPlainObject(Get(payload, "data"))
      conversation ==
        toPlainObject(Coalesce(Coalesce(Get(payload, "conversation"), dataPayload), payload))
      metadata == toPlainObject(Coalesce(Get(conversation, "metadata"), Get(payload, "metadata")))
      initiationClientData ==
        toPlainObject(Coalesce(Get(conversation, "conversation_initiation_client_data"),
                               Get(dataPayload, "conversation_initiation_client_data")))
      dynamicVariables == toPlainObject(Get(initiationClientData, "dynamic_variables"))
      event == StringOr(Coalesce(Get(payload, "event"), Get(payload, "type")), Undefined)
      conversationId ==
        FirstString(<<Get(conversation, "id"), Get(conversation, "conversation_id"),
                      Get(payload, "conversation_id"), Get(payload, "conversationId"),
                      Get(dataPayload, "conversation_id")>>)
      direct ==
        Coalesce(Coalesce(Coalesce(Get(metadata, "lookupId"), Get(metadata, "lookup_id")),
                          Get(payload, "lookupId")), Get(payload, "lookup_id"))
      dynLookupId == Coalesce(Get(dynamicVariables, "lookupId"), Get(dynamicVariables, "lookup_id"))
      lookupId == IF IsString(direct) THEN direct
                  ELSE IF IsString(dynLookupId) THEN dynLookupId
                  ELSE Undefined
      conversationCustomer == toPlainObject(Get(conversation, "customer"))
      metadataContact == toPlainObject(Get(metadata, "contact"))
      payloadContact == toPlainObject(Get(dataPayload, "contact"))
      normalizedCandidates ==
        << StrOrNull(Get(metadata, "normalized")),
           StrOrNull(Get(dynamicVariables, "normalized")),
           StrOrNull(Get(dynamicVariables, "normalized_number")),
           StrOrNull(Get(dynamicVariables, "target_number")),
           StrOrNull(Get(dynamicVariables, "targetNumber")),
           StrOrNull(Get(dynamicVariables, "rawInput")),
           StrOrNull(Get(dataPayload, "normalized")),
           StrOrNull(Get(dataPayload, "phone_number")),
           StrOrNull(Get(conversation, "phone_number")),
           StrOrNull(Get(conversationCustomer, "number")),
           StrOrNull(Get(conversationCustomer, "phone_number")),
           StrOrNull(Get(payload, "phone_number")),
           StrOrNull(Get(metadataContact, "number")),
           StrOrNull(Get(metadataContact, "phone_number")),
           StrOrNull(Get(metadataContact, "phoneNumber")),
           StrOrNull(Get(payloadContact, "number")),
           StrOrNull(Get(payloadContact, "phone_number")),
           StrOrNull(Get(payloadContact, "phoneNumber")) >>
      normalizedNumberPre == firstParsedNumber(normalizedCandidates)
      conversationStatus ==
        StringOr(Coalesce(Get(conversation, "status"), Get(payload, "status")), Undefined)
      dataPayloadStatus == StringOr(Get(dataPayload, "status"), Undefined)
      effectiveStatus == Coalesce(conversationStatus, dataPayloadStatus)
      analysis == toPlainObject(Coalesce(Get(conversation, "analysis"), Get(dataPayload, "analysis")))
      transcriptSource ==
        IF Get(dataPayload, "transcript").t = "arr" THEN Get(dataPayload, "transcript").v
        ELSE IF Get(conversation, "transcript").t = "arr" THEN Get(conversation, "transcript").v
        ELSE <<>>
      transcriptMessages == toTranscriptMessages(transcriptSource)
      transcript ==
        Coalesce(extractTranscript(conversation),
                 JStr(joinLines([i \in 1..Len(transcriptMessages) |-> transcriptMessages[i].message])))
      summary ==
        findSummary(<<StrOrNull(Get(analysis, "transcript_summary")),
                      StrOrNull(Get(conversation, "summary")),
                      StrOrNull(Get(payload, "summary")),
                      StrOrNull(Get(metadata, "summary"))>>)
      confidenceCandidate ==
        Coalesce(Coalesce(Coalesce(Get(conversation, "confidence"), Get(analysis, "confidence")),
                          Get(payload, "confidence")), Get(metadata, "confidence"))
      confidence == IF confidenceCandidate.t = "num" THEN confidenceCandidate ELSE Null
      hasCompletedData == Truthy(transcript) \/ Truthy(summary)
      lookupStatus == determineLookupStatus(event, effectiveStatus)
      eventLower == IF IsString(event) THEN toLowerCase(event.v) ELSE ""
      isInitiationEvent ==
        \/ includes(eventLower, "initiation")
        \/ includes(eventLower, "initiate")
        \/ includes(eventLower, "conversation_initiated")
        \/ includes(eventLower, "conversation_initiation")
        \/ includes(eventLower, "call_started")
        \/ eventLower = "conversation_initiation_metadata"
        \/ eventLower = "conversation_initiation_client_data"
      statusLower == IF IsString(effectiveStatus) THEN toLowerCase(effectiveStatus.v) ELSE ""
      isInitiationStatus ==
        /\ IsString(effectiveStatus)
        /\ \/ includes(statusLower, "connecting")
           \/ includes(statusLower, "ringing")
           \/ includes(statusLower, "dialing")
           \/ includes(statusLower, "initiating")
           \/ includes(statusLower, "initiate")
      isPostCallEvent ==
        \/ includes(eventLower, "post_call")
        \/ includes(eventLower, "post-call")
        \/ includes(eventLower, "completed")
        \/ includes(eventLower, "finished")
        \/ includes(statusLower, "completed")
        \/ includes(statusLower, "finished")
        \/ includes(statusLower, "done")
        \/ includes(statusLower, "succeeded")
        \/ includes(statusLower, "success")
      hasExplicitPostCallTranscription ==
        includes(eventLower, "post_call_transcription") \/ includes(eventLower, "post-call-transcription")
      hasExplicitCompletionEvent ==
        includes(eventLower, "completed") \/ includes(eventLower, "finished")
      statusToSet ==
        IF hasCompletedData \/ hasExplicitPostCallTranscription THEN JStr("post_call_transcription")
        ELSE IF hasExplicitCompletionEvent THEN Coalesce(event, JStr("completed"))
        ELSE IF \/ includes(statusLower, "completed")
                \/ includes(statusLower, "finished")
                \/ includes(statusLower, "succeeded")
                \/ includes(statusLower, "success")
                \/ includes(statusLower, "done")
             THEN Coalesce(effectiveStatus, JStr("completed"))
        ELSE Coalesce(Coalesce(event, effectiveStatus), JStr("received"))
      elevenLabsStatusToSet ==
        IF hasCompletedData \/ isPostCallEvent \/ hasExplicitPostCallTranscription
        THEN Coalesce(Coalesce(effectiveStatus, event), JStr("post_call_transcription"))
        ELSE Coalesce(effectiveStatus, Null)
  IN [ conversationId |-> conversationId,
       lookupId |-> lookupId,
       normalizedNumberPre |-> normalizedNumberPre,
       metadataNormalized |-> Get(metadata, "normalized"),
       conversationPhone |->
         FirstString(<<Get(conversation, "phone_number"), Get(conversationCustomer, "number"),
                       Get(payload, "phone_number")>>),
       event |-> event,
       effectiveStatus |-> effectiveStatus,
       transcript |-> transcript,
       transcriptMessages |-> transcriptMessages,
       summary |-> summary,
       confidence |-> confidence,
       hasCompletedData |-> hasCompletedData,
       lookupStatus |-> lookupStatus,
       isInitiationEvent |-> isInitiationEvent,
       isInitiationStatus |-> isInitiationStatus,
       isPostCallEvent |-> isPostCallEvent,
       shouldUpdateByLookupId |-> hasCompletedData \/ isPostCallEvent,
       statusToSet |-> statusToSet,
       elevenLabsStatusToSet |-> elevenLabsStatusToSet ]

(***************************************************************************)
(* Datastore.  A database value d is [lookups, attempts, profiles, now].   *)
(* A query result is Null or Row(r).  Row ids are strings, as the uuids    *)
(* of the tables are.                                                      *)
(***************************************************************************)
Row(r) == [t |-> "row", v |-> r]

IdDigits == "123456789"
LookupIdOf(i) == "l" \o CharAt(IdDigits, i)
AttemptIdOf(i) == "a" \o CharAt(IdDigits, i)
ConversationIdOf(i) == "c" \o CharAt(IdDigits, i)
ProfileIdOf(normalized) == "p" \o normalized

Max(S) == CHOOSE x \in S : \A y \in S : y <= x

\* getLookupById (an id that is no uuid of the table yields no row)
getLookupById(d, lookupId) ==
  LET hits == {i \in 1..Len(d.lookups) : d.lookups[i].id = lookupId}
  IN IF hits = {} THEN Null ELSE Row(d.lookups[Max(hits)])

\* getLatestLookupByNormalized: order by created_at desc, limit 1
getLatestLookupByNormalized(d, normalized) ==
  LET hits == {i \in 1..Len(d.lookups) : d.lookups[i].normalized = normalized}
  IN IF hits = {} THEN Null ELSE Row(d.lookups[Max(hits)])

AttemptSlots(d) == {i \in 1..Len(d.attempts) : d.attempts[i].t = "row"}

\* getCallAttemptByConversationId: order by requested_at desc, limit 1
getCallAttemptByConversationId(d, conversationId) ==
  LET hits == {i \in AttemptSlots(d) : d.attempts[i].v.elevenlabs_conversation_id = JStr(conversationId)}
  IN IF hits = {} THEN Null ELSE d.attempts[Max(hits)]

\* getLatestCallAttempt: the attempt of the lookup (maybeSingle)
getLatestCallAttempt(d, lookupId) ==
  LET hits == {i \in AttemptSlots(d) : d.attempts[i].v.lookup_id = lookupId}
  IN IF Cardinality(hits) # 1 THEN Null ELSE d.attempts[Max(hits)]

\* getProfileById
getProfileById(d, profileId) ==
  LET hits == {n \in DOMAIN d.profiles : d.profiles[n].id = profileId}
  IN IF hits = {} THEN Null ELSE Row(d.profiles[CHOOSE n \in hits : TRUE])

\* fetchProfileRecordByNumber
fetchProfileRecordByNumber(d, normalized) ==
  IF normalized \in DOMAIN d.profiles THEN Row(d.profiles[normalized]) ELSE Null

\* the columns an update call sets: the arguments that are not undefined
UpdatedColumns(input) == {k \in DOMAIN input : input[k] # Undefined}

\* the row after .update(updates); the trigger set_call_attempts_updated_at stamps updated_at
ApplyUpdates(row, input, stamp) ==
  [k \in DOMAIN row |->
     IF k = "updated_at" THEN stamp
     ELSE IF k \in UpdatedColumns(input) THEN input[k]
     ELSE row[k]]

updateCallAttemptByConversation_reinserting(d, conversationId, input) ==
  LET hits == {i \in AttemptSlots(d) : d.attempts[i].v.elevenlabs_conversation_id = JStr(conversationId)}
  IN IF UpdatedColumns(input) = {} \/ Cardinality(hits) # 1
     THEN [d |-> d, result |-> Null]
     ELSE LET i == CHOOSE j \in hits : TRUE
              stamp == d.now + 1
          IN [d |-> [d EXCEPT !.attempts[i] =
                                Row([ApplyUpdates(d.attempts[i].v, input, stamp) EXCEPT !.id = "a0"]),
                              !.now = stamp],
              result |-> JStr(d.attempts[i].v.lookup_id)]

\* updateCallAttemptByConversation: [d |-> database after, result |-> lookup_id or Null]
updateCallAttemptByConversation(d, conversationId, input) ==
  LET hits == {i \in AttemptSlots(d) : d.attempts[i].v.elevenlabs_conversation_id = JStr(conversationId)}
  IN IF UpdatedColumns(input) = {} \/ Cardinality(hits) # 1
        \/ "updateCallAttemptByConversation" \in d.down
     THEN [d |-> d, result |-> Null]
     ELSE LET i == CHOOSE j \in hits : TRUE
              stamp == d.now + 1
          IN [d |-> [d EXCEPT !.attempts[i] = Row(ApplyUpdates(d.attempts[i].v, input, stamp)),
                              !.now = stamp],
              result |-> JStr(d.attempts[i].v.lookup_id)]

\* updateCallAttemptByLookupId: [d |-> database after, result |-> updated row or Null]
updateCallAttemptByLookupId(d, lookupId, input) ==
  LET latestAttempt == getLatestCallAttempt(d, lookupId)
  IN IF UpdatedColumns(input) = {} \/ latestAttempt.t # "row"
        \/ "updateCallAttemptByLookupId" \in d.down
     THEN [d |-> d, result |-> Null]
     ELSE LET i == CHOOSE j \in AttemptSlots(d) : d.attempts[j].v.id = latestAttempt.v.id
              stamp == d.now + 1
              updated == Row(ApplyUpdates(d.attempts[i].v, input, stamp))
          IN [d |-> [d EXCEPT !.attempts[i] = updated, !.now = stamp],
              result |-> updated]

\* updateLookupStatus(lookupId, status, profileId): profile_id is written unless undefined
updateLookupStatus(d, lookupId, status, profileId) ==
  [d EXCEPT !.lookups =
     [i \in 1..Len(d.lookups) |->
        IF d.lookups[i].id = lookupId /\ "updateLookupStatus" \notin d.down
        THEN [d.lookups[i] EXCEPT
                !.status = status,
                !.profile_id = IF profileId = Undefined THEN @ ELSE profileId]
        ELSE d.lookups[i]]]

\* upsertPhoneProfile: insert or overwrite the row of input.normalized (onConflict: normalized);
\* the id of an existing row is kept
upsertPhoneProfile_throwing(d, input) ==
  IF "upsertPhoneProfile" \in d.down THEN [d |-> [d EXCEPT !.threw = TRUE], result |-> Null]
  ELSE [d |-> [d EXCEPT !.profiles = (input.normalized :> [id |-> ProfileIdOf(input.normalized)])
                                     @@ d.profiles],
        result |-> JStr(ProfileIdOf(input.normalized))]

upsertPhoneProfile(d, input) ==
  LET row == [ id |-> ProfileIdOf(input.normalized),
               normalized |-> input.normalized,
               caller_name |-> input.callerName,
               summary |-> Coalesce(input.summary, Null),
               transcript_preview |-> Coalesce(input.transcriptPreview, Null),
               last_checked |-> d.now,
               confidence |-> Coalesce(input.confidence, Null),
               call_outcome |-> input.callOutcome,
               tags |-> input.tags,
               aka |-> input.aka,
               name_source |-> input.nameSource,
               entity_type_source |-> input.entityTypeSource ]
  IN IF "upsertPhoneProfile" \in d.down THEN [d |-> d, result |-> Null]
     ELSE [d |-> [d EXCEPT !.profiles = (input.normalized :> row) @@ d.profiles],
           result |-> JStr(row.id)]

(***************************************************************************)
(* Identity Resolver: structured agent output, the stored profile and the  *)
(* sentinel.  The payloads of this model carry no metadata names, no       *)
(* analysis entities and no text that the transcript and summary patterns  *)
(* match, so those candidate sources contribute nothing here.              *)
(***************************************************************************)
GENERIC_CALLER_LABELS ==
  { "onbekende beller", "unknown caller", "unknown", "n.v.t", "nvt", "n/a", "not available",
    "niet beschikbaar", "niet bekend", "geen naam", "unknown person", "unknown name",
    "business", "company", "organization", "organisation", "bedrijf", "bedrijfsnaam",
    "company name", "anonymous", "anoniem", "private caller", "private number" }

BUSINESS_KEYWORDS ==
  { "bedrijf", "b.v", "bv", "holding", "studio", "agency", "bureau", "shop", "winkel",
    "restaurant", "clinic", "solutions", "consultancy", "services", "bv.", "llc", "inc",
    "gmbh", "groep", "group", "co.", "company" }

includesAny(lower, keywords) == \E keyword \in keywords : includes(lower, keyword)

containsBusinessKeyword(value) == includesAny(toLowerCase(value), BUSINESS_KEYWORDS)

\* \w of a JavaScript regular expression without the u flag
WordChars ==
  {CharAt(UpperChars, i) : i \in 1..Len(UpperChars)}
  \cup {CharAt(LowerChars, i) : i \in 1..Len(LowerChars)}
  \cup {"0", "1", "2", "3", "4", "5", "6", "7", "8", "9", "_"}

IsWordChar(c) == c \in WordChars

\* value.replace(/\s+/g, " ")
RECURSIVE collapseWhitespace(_)
collapseWhitespace(s) ==
  IF Len(s) = 0 THEN ""
  ELSE IF IsSpace(CharAt(s, 1))
       THEN " " \o collapseWhitespace(trimStart(s))
       ELSE CharAt(s, 1) \o collapseWhitespace(SubSeq(s, 2, Len(s)))

\* value.replace(/^[\W_]+|[\W_]+$/g, "")
RECURSIVE stripLeadingNonWord(_)
stripLeadingNonWord(s) ==
  IF Len(s) > 0 /\ (~IsWordChar(CharAt(s, 1)) \/ CharAt(s, 1) = "_")
  THEN stripLeadingNonWord(SubSeq(s, 2, Len(s))) ELSE s

RECURSIVE stripTrailingNonWord(_)
stripTrailingNonWord(s) ==
  IF Len(s) > 0 /\ (~IsWordChar(CharAt(s, Len(s))) \/ CharAt(s, Len(s)) = "_")
  THEN stripTrailingNonWord(SubSeq(s, 1, Len(s) - 1)) ELSE s

\* cleanCallerName: a JSON string or Null
cleanCallerName(value) ==
  IF ~IsString(value) THEN Null
  ELSE LET normalized == trim(stripTrailingNonWord(stripLeadingNonWord(collapseWhitespace(value.v))))
       IN IF Len(normalized) < 2 THEN Null ELSE JStr(normalized)

\* convertToBoolean: JBool or Null
convertToBoolean(value) ==
  IF value.t = "bool" THEN value
  ELSE IF IsString(value) /\ trim(toLowerCase(value.v)) = "true" THEN JBool(TRUE)
  ELSE IF IsString(value) /\ trim(toLowerCase(value.v)) = "false" THEN JBool(FALSE)
  ELSE Null

\* organisation: JBool or Undefined
convertOrganisation(raw) ==
  IF IsNullish(raw) THEN Undefined
  ELSE IF convertToBoolean(raw).t = "bool" THEN convertToBoolean(raw)
  ELSE Undefined

\* agent output [consent, name, organisation] wrapped in Row, or Null
extractFromCandidate(data) ==
  LET consent == convertToBoolean(Get(data, "consent"))
      name == Get(data, "name")
  IN IF consent.t # "bool" THEN Null
     ELSE IF ~IsString(name) /\ name.t # "null" THEN Null
     ELSE Row([ consent |-> consent.v,
                name |-> IF IsString(name) THEN cleanCallerName(name) ELSE Null,
                organisation |-> convertOrganisation(Get(data, "organisation")) ])

checkDataCollectionResults(obj) ==
  LET results == toPlainObject(Get(obj, "data_collection_results"))
      nameItem == toPlainObject(Get(results, "name"))
      consentItem == toPlainObject(Get(results, "consent"))
      organisationItem == toPlainObject(Get(results, "organisation"))
      nameValue == IF IsString(Get(nameItem, "value")) THEN Get(nameItem, "value")
                   ELSE IF Get(nameItem, "value").t = "null" THEN Null
                   ELSE Undefined
      consentValue == Get(consentItem, "value")
      consent == convertToBoolean(consentValue)
  IN IF /\ results.t = "obj" /\ DOMAIN results.v # {}
        /\ nameValue # Undefined /\ consentValue # Undefined
        /\ consent.t = "bool"
     THEN Row([ consent |-> consent.v,
                name |-> IF IsString(nameValue) THEN cleanCallerName(nameValue) ELSE Null,
                organisation |-> convertOrganisation(Get(organisationItem, "value")) ])
     ELSE Null

\* first Row of a sequence of results, or Null
RECURSIVE FirstRow(_)
FirstRow(q) ==
  IF Len(q) = 0 THEN Null
  ELSE IF Head(q).t = "row" THEN Head(q) ELSE FirstRow(Tail(q))

extractAgentOutput(conversation, payload, metadata, analysis) ==
  LET direct == IF Get(analysis, "consent") # Undefined \/ Get(analysis, "name") # Undefined
                THEN extractFromCandidate(analysis) ELSE Null
      payloadData == toPlainObject(Get(payload, "data"))
      nested ==
        << Get(conversation, "output"), Get(conversation, "result"),
           Get(conversation, "call_result"), Get(conversation, "call_output"),
           Get(conversation, "agent_output"), Get(conversation, "agent_result"),
           Get(payload, "output"), Get(payload, "result"),
           Get(payload, "call_result"), Get(payload, "call_output"),
           Get(payload, "agent_output"), Get(payload, "agent_result"),
           Get(metadata, "output"), Get(metadata, "result"),
           Get(metadata, "agent_output"), Get(metadata, "agent_result"),
           Get(analysis, "output"), Get(analysis, "result"),
           Get(analysis, "agent_output"), Get(analysis, "agent_result"),
           Get(analysis, "data_collection"), Get(conversation, "data_collection") >>
  IN FirstRow(<< checkDataCollectionResults(analysis),
                 direct,
                 checkDataCollectionResults(conversation),
                 checkDataCollectionResults(payload),
                 checkDataCollectionResults(payloadData) >>
              \o [i \in 1..Len(nested) |->
                    IF nested[i].t \in {"obj", "arr"} THEN extractFromCandidate(nested[i]) ELSE Null])

SENTINEL == "Onbekende beller"

\* addCandidateToSet on an insertion-ordered set kept as a sequence of strings
addCandidateToSet(collection, value, allowDigits) ==
  LET cleaned == cleanCallerName(value)
  IN IF cleaned.t # "str" THEN collection
     ELSE IF ~allowDigits /\ \E i \in 1..Len(cleaned.v) : IsDigit(CharAt(cleaned.v, i)) THEN collection
     ELSE IF toLowerCase(cleaned.v) \in GENERIC_CALLER_LABELS THEN collection
     ELSE IF \E i \in 1..Len(collection) : collection[i] = cleaned.v THEN collection
     ELSE Append(collection, cleaned.v)

\* addCandidateToSet for each value of a sequence of JSON values, in order
RECURSIVE addCandidates(_, _, _)
addCandidates(collection, values, allowDigits) ==
  IF Len(values) = 0 THEN collection
  ELSE addCandidates(addCandidateToSet(collection, Head(values), allowDigits), Tail(values),
                     allowDigits)

(***************************************************************************)
(* The name patterns (lines 115-127).  A pattern is a word boundary, one   *)
(* of the trigger phrases, separators, an optional bridge phrase and the   *)
(* captured name: a letter (the i flag lets [A-Z] match both cases)        *)
(* followed by 1..most characters of the class, as many as there are; the  *)
(* second business pattern then needs separators and a closing keyword,    *)
(* and the capture gives characters back until they follow.  The optional  *)
(* article before the triggers of the person pattern moves the start of a  *)
(* match only, never its capture, and is left out.                         *)
(***************************************************************************)
Letters ==
  {CharAt(UpperChars, i) : i \in 1..Len(UpperChars)}
  \cup {CharAt(LowerChars, i) : i \in 1..Len(LowerChars)}
\* [\p{L}'\- ] and the grave accent, which no text of this model contains
NameChars == Letters \cup {"'", "-", " "}
BusinessNameChars == NameChars \cup {"0", "1", "2", "3", "4", "5", "6", "7", "8", "9", "&"}
Whitespace == {" ", "\t", "\n"}

TRANSCRIPT_NAME_PATTERNS ==
  << [ triggers |-> <<"met", "u spreekt met", "je spreekt met", "ik ben", "dit is", "hier is",
                      "spreek je met", "je praat met">>,
       sep |-> Whitespace, bridges |-> <<>>, chars |-> NameChars, most |-> 80, tail |-> <<>> ],
     [ triggers |-> <<"mijn naam is", "my name is", "this is">>,
       sep |-> Whitespace, bridges |-> <<>>, chars |-> NameChars, most |-> 80, tail |-> <<>> ] >>

SUMMARY_PERSON_PATTERNS ==
  << [ triggers |-> <<"user", "caller", "contact", "persoon", "klant", "gebruiker">>,
       sep |-> Whitespace \cup {",", ":"},
       bridges |-> << <<"met", "naam">>, <<"named">>, <<"called">>, <<"genaamd">> >>,
       chars |-> NameChars, most |-> 80, tail |-> <<>> ] >>

SUMMARY_BUSINESS_PATTERNS ==
  << [ triggers |-> <<"company", "organisation", "organization", "business", "bedrijf",
                      "onderneming", "firma", "studio", "winkel", "restaurant", "praktijk",
                      "bv.", "bv", "b.v.", "holding", "groep", "group", "agency">>,
       sep |-> Whitespace,
       bridges |-> << <<"genaamd">>, <<"called">>, <<"named">>, <<"heet">>, <<"heette">> >>,
       chars |-> BusinessNameChars, most |-> 120, tail |-> <<>> ],
     [ triggers |-> <<"van", "from">>,
       sep |-> Whitespace, bridges |-> <<>>, chars |-> BusinessNameChars, most |-> 120,
       tail |-> <<"bedrijf", "company", "organisation", "organization">> ] >>

\* how many characters from position j on are in chars, counting to limit at most
RECURSIVE runOf(_, _, _, _)
runOf(text, j, chars, limit) ==
  IF limit = 0 \/ j > Len(text) \/ CharAt(text, j) \notin chars THEN 0
  ELSE 1 + runOf(text, j + 1, chars, limit - 1)

\* the phrase w (lower case) stands at position i, in either case
literalAt(text, i, w) ==
  i + Len(w) - 1 <= Len(text) /\ toLowerCase(SubSeq(text, i, i + Len(w) - 1)) = w

\* the position after the words, each followed by whitespace; 0 if they are not there
RECURSIVE wordsEnd(_, _, _)
wordsAfter(text, j, s, words) == IF s = 0 THEN 0 ELSE wordsEnd(text, j + s, words)
wordsEnd(text, j, words) ==
  IF Len(words) = 0 THEN j
  ELSE IF ~literalAt(text, j, Head(words)) THEN 0
  ELSE wordsAfter(text, j + Len(Head(words)),
                  runOf(text, j + Len(Head(words)), Whitespace, Len(text)), Tail(words))

NoMatch == [ok |-> FALSE]

\* the first (last) attempt of a sequence of attempts that matched
firstOk(q) ==
  IF \E i \in 1..Len(q) : q[i].ok
  THEN q[CHOOSE i \in 1..Len(q) : q[i].ok /\ \A c \in 1..(i - 1) : ~q[c].ok]
  ELSE NoMatch

lastOk(q) ==
  IF \E i \in 1..Len(q) : q[i].ok
  THEN q[CHOOSE i \in 1..Len(q) : q[i].ok /\ \A c \in (i + 1)..Len(q) : ~q[c].ok]
  ELSE NoMatch

\* a capture from j to j + n that the closing keyword at position e follows
closedAt(text, j, n, e, p) ==
  IF e = j + n + 1 THEN NoMatch
  ELSE firstOk([i \in 1..Len(p.tail) |->
                  IF /\ literalAt(text, e, p.tail[i])
                     /\ \/ e + Len(p.tail[i]) > Len(text)
                        \/ CharAt(text, e + Len(p.tail[i])) \notin WordChars
                  THEN [ok |-> TRUE, from |-> j, to |-> j + n, next |-> e + Len(p.tail[i])]
                  ELSE NoMatch])

\* a capture that starts at j and may take k more characters
captureOf(text, j, k, p) ==
  IF k = 0 THEN NoMatch
  ELSE IF Len(p.tail) = 0 THEN [ok |-> TRUE, from |-> j, to |-> j + k, next |-> j + k + 1]
  ELSE lastOk([n \in 1..k |->
                 closedAt(text, j, n,
                          j + n + 1 + runOf(text, j + n + 1, Whitespace, Len(text)), p)])

\* the capture group at position j (0: the bridge was not there): first and last
\* position of the name, and the position after the match
captureAt(text, j, p) ==
  IF j = 0 \/ j > Len(text) \/ CharAt(text, j) \notin Letters THEN NoMatch
  ELSE captureOf(text, j, runOf(text, j + 1, p.chars, p.most), p)

\* after s separators that end before position j: a bridge, or none, and the capture
bridgeAndCapture(text, j, s, p) ==
  IF s = 0 THEN NoMatch
  ELSE firstOk([b \in 1..(Len(p.bridges) + 1) |->
                  captureAt(text,
                            IF b <= Len(p.bridges) THEN wordsEnd(text, j, p.bridges[b]) ELSE j,
                            p)])

\* separators, the optional bridge and the capture, from position j on
restOf(text, j, p) ==
  bridgeAndCapture(text, j + runOf(text, j, p.sep, Len(text)),
                   runOf(text, j, p.sep, Len(text)), p)

\* a match of the pattern that starts at position i
matchAt(text, i, p) ==
  IF i > 1 /\ CharAt(text, i - 1) \in WordChars THEN NoMatch
  ELSE firstOk([t \in 1..Len(p.triggers) |->
                  IF literalAt(text, i, p.triggers[t])
                  THEN restOf(text, i + Len(p.triggers[t]), p) ELSE NoMatch])

\* pattern.exec(text) until it fails: the captures from position i on
RECURSIVE execAll(_, _, _)
execNext(text, i, p, m) ==
  (IF m.ok THEN <<JStr(SubSeq(text, m.from, m.to))>> ELSE <<>>)
  \o execAll(text, IF m.ok THEN m.next ELSE i + 1, p)
execAll(text, i, p) ==
  IF i > Len(text) THEN <<>> ELSE execNext(text, i, p, matchAt(text, i, p))

\* the captures of the patterns in a text, pattern by pattern
RECURSIVE execPatterns(_, _)
execPatterns(text, patterns) ==
  IF Len(patterns) = 0 THEN <<>>
  ELSE execAll(text, 1, Head(patterns)) \o execPatterns(text, Tail(patterns))

\* addTextMatchesToSet: what it offers to addCandidateToSet for a JSON text
textMatches(text, patterns) ==
  IF ~Truthy(text) \/ ~IsString(text) THEN <<>> ELSE execPatterns(text.v, patterns)

addTextMatchesToSet(text, patterns, collection, allowDigits) ==
  addCandidates(collection, textMatches(text, patterns), allowDigits)

ALLOWED_CALLER_ROLES ==
  {"user", "customer", "caller", "callee", "lead", "contact", "prospect", "human"}

\* entry.message.replace(/[.!?]+$/u, "").trim()
RECURSIVE stripSentenceEnd(_)
stripSentenceEnd(s) ==
  IF Len(s) > 0 /\ CharAt(s, Len(s)) \in {".", "!", "?"}
  THEN stripSentenceEnd(SubSeq(s, 1, Len(s) - 1)) ELSE s

\* a collector that hears no name in the transcript
collectPersonNamesFromTranscript_deaf(messages, candidates) == candidates

RECURSIVE collectPersonNamesFromTranscript(_, _)
collectPersonNamesFromTranscript(messages, candidates) ==
  IF Len(messages) = 0 THEN candidates
  ELSE collectPersonNamesFromTranscript(
         Tail(messages),
         IF Truthy(Head(messages).role)
            /\ toLowerCase(Head(messages).role.v) \notin ALLOWED_CALLER_ROLES
         THEN candidates
         ELSE addTextMatchesToSet(JStr(trim(stripSentenceEnd(Head(messages).message))),
                                  TRANSCRIPT_NAME_PATTERNS, candidates, FALSE))

\* deriveCallerNameFromTranscript (the payloads of this model carry no
\* analysis.entities, so extractNameFromEntities finds nothing): transcriptCandidates[0] ?? null
deriveCallerNameFromTranscript(transcriptCandidates) ==
  IF Len(transcriptCandidates) > 0 THEN JStr(transcriptCandidates[1]) ELSE Null

\* pickString: the first string that is longer than one character when trimmed
RECURSIVE pickString(_)
pickString(values) ==
  IF Len(values) = 0 THEN Null
  ELSE IF IsString(Head(values)) /\ Len(trim(Head(values).v)) > 1
       THEN JStr(trim(Head(values).v))
       ELSE pickString(Tail(values))

\* addValues: the values of the keys that are neither undefined nor null
RECURSIVE valuesOf(_, _)
valuesOf(source, keys) ==
  IF Len(keys) = 0 THEN <<>>
  ELSE IF IsNullish(Get(source, Head(keys))) THEN valuesOf(source, Tail(keys))
  ELSE <<Get(source, Head(keys))>> \o valuesOf(source, Tail(keys))

ContactNameKeys == <<"name", "full_name", "contact_name", "display_name">>
ContactCompanyKeys ==
  <<"company", "company_name", "business", "business_name", "organisation", "organization">>

\* summaryTexts, lines 1685-1697
summaryTexts(src) ==
  LET metadataNotesObject == toPlainObject(Get(src.metadata, "notes"))
      payloadNotesObject == toPlainObject(Get(toPlainObject(Get(src.payload, "data")), "notes"))
      conversationNotesObject == toPlainObject(Get(src.conversation, "notes"))
  IN << src.summary,
        StrOrNull(Get(src.analysis, "summary")),
        StrOrNull(Get(src.analysis, "transcript_summary")),
        StrOrNull(Get(src.metadata, "summary")),
        StrOrNull(Get(src.metadata, "notes")),
        StrOrNull(Get(src.payload, "summary")),
        StrOrNull(Get(src.payload, "description")),
        StrOrNull(Get(metadataNotesObject, "text")),
        StrOrNull(Get(metadataNotesObject, "summary")),
        StrOrNull(Get(payloadNotesObject, "text")),
        StrOrNull(Get(conversationNotesObject, "text")) >>

\* the captures of the patterns in every text, text by text
RECURSIVE allTextMatches(_, _)
allTextMatches(texts, patterns) ==
  IF Len(texts) = 0 THEN <<>>
  ELSE textMatches(Head(texts), patterns) \o allTextMatches(Tail(texts), patterns)

\* lines 1558-1593 and 1700: what is offered to addPersonCandidate, in order
\* (the analysis.entities loop of lines 1627-1679 has nothing to read in this model)
personValues(src, transcriptCandidates) ==
  LET contact == toPlainObject(Get(src.conversation, "contact"))
      payloadData == toPlainObject(Get(src.payload, "data"))
  IN << pickString(<<Get(src.metadata, "callerName"), Get(src.metadata, "caller_name"),
                     Get(src.metadata, "name")>>),
        pickString(<<Get(contact, "name"), Get(src.conversation, "caller_name")>>),
        deriveCallerNameFromTranscript(transcriptCandidates) >>
     \o [i \in 1..Len(transcriptCandidates) |-> JStr(transcriptCandidates[i])]
     \o valuesOf(src.metadata, <<"callerName", "caller_name", "name", "personName", "person_name",
                                 "contactName", "contact_name", "full_name", "display_name">>)
     \o valuesOf(toPlainObject(Get(src.metadata, "contact")), ContactNameKeys)
     \o valuesOf(contact, ContactNameKeys)
     \o valuesOf(toPlainObject(Get(src.conversation, "customer")), ContactNameKeys)
     \o valuesOf(payloadData, <<"callerName", "caller_name", "personName", "person_name">>)
     \o valuesOf(toPlainObject(Get(payloadData, "contact")), ContactNameKeys)
     \o valuesOf(src.analysis, <<"callerName", "caller_name", "personName", "person_name">>)
     \o allTextMatches(summaryTexts(src), SUMMARY_PERSON_PATTERNS)

\* lines 1595-1625 and 1701-1704: what is offered to addBusinessCandidate, in order
businessValues(src) ==
  LET contact == toPlainObject(Get(src.conversation, "contact"))
      payloadData == toPlainObject(Get(src.payload, "data"))
  IN valuesOf(src.metadata, <<"businessName", "business_name", "companyName", "company_name",
                              "organization", "organisation", "company", "business",
                              "entityName", "entity_name">>)
     \o valuesOf(toPlainObject(Get(src.metadata, "company")),
                 <<"name", "businessName", "business_name", "companyName", "company_name",
                   "organization", "organisation">>)
     \o valuesOf(toPlainObject(Get(src.metadata, "business")),
                 <<"name", "company", "company_name", "brand", "brand_name">>)
     \o valuesOf(contact, ContactCompanyKeys)
     \o valuesOf(toPlainObject(Get(src.conversation, "customer")), ContactCompanyKeys)
     \o valuesOf(payloadData, <<"businessName", "business_name", "companyName", "company_name",
                                "organization", "organisation">>)
     \o valuesOf(toPlainObject(Get(payloadData, "company")),
                 <<"name", "businessName", "business_name", "companyName", "company_name">>)
     \o valuesOf(src.analysis, <<"businessName", "business_name", "companyName", "company_name",
                                 "organization", "organisation">>)
     \o allTextMatches(summaryTexts(src), SUMMARY_BUSINESS_PATTERNS)
     \o textMatches(src.transcript, SUMMARY_BUSINESS_PATTERNS)

\* the roots POST probes: data, conversation, metadata, analysis
PayloadRoots(payload) ==
  LET dataPayload == toPlainObject(Get(payload, "data"))
      conversation ==
        toPlainObject(Coalesce(Coalesce(Get(payload, "conversation"), dataPayload), payload))
  IN [ dataPayload |-> dataPayload,
       conversation |-> conversation,
       metadata |-> toPlainObject(Coalesce(Get(conversation, "metadata"), Get(payload, "metadata"))),
       analysis |-> toPlainObject(Coalesce(Get(conversation, "analysis"), Get(dataPayload, "analysis"))) ]

\* deriveEntityTag (the analysis.entities loop has nothing to read in this model): string or Null
deriveEntityTag(summary, callerName, metadata, analysis) ==
  LET directTag == FirstString(<<Get(metadata, "entityTag"), Get(metadata, "entity_tag"), Get(metadata, "tag")>>)
      entityType == FirstString(<<Get(metadata, "entityType"), Get(metadata, "entity_type"),
                                  Get(metadata, "callerType"), Get(metadata, "caller_type")>>)
      typeLower == IF Truthy(entityType) THEN toLowerCase(entityType.v) ELSE ""
      metadataTag ==
        IF Truthy(directTag) THEN directTag
        ELSE IF ~Truthy(entityType) THEN Null
        ELSE IF \E token \in {"business", "company", "enterprise", "organisation", "organization", "corporate"} :
                  includes(typeLower, token)
             THEN JStr("Bedrijf")
        ELSE IF \E token \in {"person", "individual", "human"} : includes(typeLower, token)
             THEN JStr("Particulier")
        ELSE Null
      classification == toPlainObject(Get(analysis, "classification"))
      categoryRaw == FirstString(<<Get(classification, "category"), Get(classification, "type")>>)
      category == IF IsString(categoryRaw) THEN toLowerCase(categoryRaw.v) ELSE ""
      businessName == FirstString(<<Get(metadata, "businessName"), Get(metadata, "companyName")>>)
      textParts ==
        (IF Truthy(summary) THEN <<summary.v>> ELSE <<>>)
        \o (IF Truthy(callerName) THEN <<callerName.v>> ELSE <<>>)
        \o (IF Truthy(businessName) THEN <<businessName.v>> ELSE <<>>)
      combined == toLowerCase(join(textParts, " "))
  IN IF Truthy(metadataTag)
     THEN LET normalized == trim(toLowerCase(metadataTag.v))
          IN IF normalized \in {"business", "company", "organisation", "organization", "corporate"}
             THEN JStr("Bedrijf")
             ELSE IF normalized \in {"person", "individual", "human", "persoon", "particulier"}
             THEN JStr("Particulier")
             ELSE metadataTag
     ELSE IF Len(category) > 0 /\ category \in {"business", "company", "organisation", "organization"}
     THEN JStr("Bedrijf")
     ELSE IF Len(category) > 0 /\ category \in {"person", "individual", "human"}
     THEN JStr("Particulier")
     ELSE IF Len(combined) > 0 /\ \E keyword \in BUSINESS_KEYWORDS : includes(combined, keyword)
     THEN JStr("Bedrijf")
     ELSE IF Truthy(callerName) /\ callerName.v # SENTINEL
     THEN JStr("Particulier")
     ELSE Null

\* Map.set(key, value) on an insertion-ordered map kept as a sequence of [k, v]
mapSet(m, key, value) ==
  IF \E i \in 1..Len(m) : m[i].k = key
  THEN [i \in 1..Len(m) |-> IF m[i].k = key THEN [k |-> key, v |-> value] ELSE m[i]]
  ELSE Append(m, [k |-> key, v |-> value])

mapValues(m) == [i \in 1..Len(m) |-> m[i].v]

RECURSIVE mapSetAll(_, _)
mapSetAll(m, tagSeq) ==
  IF Len(tagSeq) = 0 THEN m
  ELSE IF Len(trim(Head(tagSeq))) = 0 THEN mapSetAll(m, Tail(tagSeq))
  ELSE mapSetAll(mapSet(m, toLowerCase(trim(Head(tagSeq))), trim(Head(tagSeq))), Tail(tagSeq))

\* the strings of metadata.tags, trimmed, empty ones dropped
RECURSIVE metadataTagsOf(_)
metadataTagsOf(q) ==
  IF Len(q) = 0 THEN <<>>
  ELSE IF IsString(Head(q)) /\ Len(trim(Head(q).v)) > 0
       THEN <<trim(Head(q).v)>> \o metadataTagsOf(Tail(q))
       ELSE metadataTagsOf(Tail(q))

\* addAlias of POST: aliasMap.set(lower, cleaned) unless the alias is the caller name or generic
RECURSIVE addAliases(_, _, _)
addAliases(m, aliasSeq, callerName) ==
  IF Len(aliasSeq) = 0 THEN m
  ELSE LET cleaned == cleanCallerName(JStr(Head(aliasSeq)))
       IN IF \/ cleaned.t # "str"
             \/ cleaned.v = callerName
             \/ toLowerCase(cleaned.v) \in GENERIC_CALLER_LABELS
          THEN addAliases(m, Tail(aliasSeq), callerName)
          ELSE addAliases(mapSet(m, toLowerCase(cleaned.v), cleaned.v), Tail(aliasSeq), callerName)

\* the stored aliases as person / business candidates (lines 1720-1731)
RECURSIVE addStoredAliases(_, _, _)
addStoredAliases(collection, aliasSeq, wantBusiness) ==
  IF Len(aliasSeq) = 0 THEN collection
  ELSE LET normalizedAlias == cleanCallerName(JStr(Head(aliasSeq)))
       IN IF normalizedAlias.t # "str" \/ containsBusinessKeyword(normalizedAlias.v) # wantBusiness
          THEN addStoredAliases(collection, Tail(aliasSeq), wantBusiness)
          ELSE addStoredAliases(addCandidateToSet(collection, normalizedAlias, wantBusiness),
                                Tail(aliasSeq), wantBusiness)

agentIdentity_untagged(agentOutput) ==
  [ callerName |-> IF agentOutput.t = "row" /\ agentOutput.v.consent /\ Truthy(agentOutput.v.name)
                   THEN agentOutput.v.name
                   ELSE IF agentOutput.t = "row" /\ ~agentOutput.v.consent THEN JStr(SENTINEL)
                   ELSE Null,
    entityTag |-> Null, personList |-> <<>>, businessList |-> <<>>,
    nameSource |-> IF agentOutput.t = "row" /\ agentOutput.v.consent /\ Truthy(agentOutput.v.name)
                   THEN JStr("elevenlabs") ELSE Null,
    entityTypeSource |-> Null ]

\* lines 1498-1533: the identity the structured agent output gives
agentIdentity(agentOutput) ==
  IF agentOutput.t = "row" /\ agentOutput.v.consent /\ Truthy(agentOutput.v.name)
  THEN [ callerName |-> agentOutput.v.name,
         entityTag |-> IF agentOutput.v.organisation = JBool(TRUE) THEN JStr("Bedrijf")
                       ELSE IF agentOutput.v.organisation = JBool(FALSE) THEN JStr("Particulier")
                       ELSE Null,
         personList |-> IF agentOutput.v.organisation = JBool(TRUE) THEN <<>>
                        ELSE <<agentOutput.v.name.v>>,
         businessList |-> IF agentOutput.v.organisation = JBool(TRUE)
                          THEN <<agentOutput.v.name.v>> ELSE <<>>,
         nameSource |-> JStr("elevenlabs"),
         entityTypeSource |-> IF agentOutput.v.organisation.t = "bool" THEN JStr("elevenlabs")
                              ELSE Null ]
  ELSE [ callerName |-> IF agentOutput.t = "row" /\ ~agentOutput.v.consent THEN JStr(SENTINEL)
                        ELSE Null,
         entityTag |-> Null, personList |-> <<>>, businessList |-> <<>>,
         nameSource |-> Null, entityTypeSource |-> Null ]

\* existingCallerName, lines 1764-1767: a JSON string or Null
existingCallerNameOf(existing) ==
  IF existing.t = "row" /\ Len(existing.v.caller_name) > 0 /\ existing.v.caller_name # SENTINEL
  THEN JStr(existing.v.caller_name) ELSE Null

\* existingTagsLower.some((tag) => tag.includes("bedrijf"))
existingIsBusiness(existing) ==
  /\ existing.t = "row"
  /\ \E i \in 1..Len(existing.v.tags) : includes(toLowerCase(existing.v.tags[i]), "bedrijf")

existingAkaOf(existing) == IF existing.t = "row" THEN existing.v.aka ELSE <<>>
existingTagsOf(existing) == IF existing.t = "row" THEN existing.v.tags ELSE <<>>

\* lines 1706-1734: personCandidates (wantBusiness FALSE) / businessCandidates (TRUE)
storedCandidates(collection, existing, wantBusiness) ==
  addStoredAliases(
    IF Truthy(existingCallerNameOf(existing)) /\ existingIsBusiness(existing) = wantBusiness
    THEN addCandidateToSet(collection, existingCallerNameOf(existing), wantBusiness)
    ELSE collection,
    existingAkaOf(existing), wantBusiness)

\* lines 1538-1704: the candidates the payload itself gives, before the stored profile is read
payloadPersons(src) ==
  addCandidates(<<>>,
                personValues(src, collectPersonNamesFromTranscript(src.transcriptMessages, <<>>)),
                FALSE)

payloadBusinesses(src) == addCandidates(<<>>, businessValues(src), TRUE)

\* personCandidates and businessCandidates as Array.from gives them, lines 1538-1734
personCandidates(found, existing) == storedCandidates(found.persons, existing, FALSE)

businessCandidates(found, existing) == storedCandidates(found.businesses, existing, TRUE)

\* personList[0] ?? businessList[0] ?? undefined
firstCandidate(personList, businessList) ==
  IF Len(personList) > 0 THEN JStr(personList[1])
  ELSE IF Len(businessList) > 0 THEN JStr(businessList[1]) ELSE Null

\* lines 1746-1777: callerNameCandidate and selectedEntityKind
selectCandidate(tagCandidate, personList, businessList, existingName, isBusiness) ==
  IF tagCandidate = JStr("Bedrijf") /\ Len(businessList) > 0
  THEN [name |-> JStr(businessList[1]), kind |-> "business"]
  ELSE IF Len(personList) > 0 THEN [name |-> JStr(personList[1]), kind |-> "person"]
  ELSE IF Len(businessList) > 0 THEN [name |-> JStr(businessList[1]), kind |-> "business"]
  ELSE IF Truthy(existingName)
  THEN [name |-> existingName, kind |-> IF isBusiness THEN "business" ELSE "person"]
  ELSE [name |-> Null, kind |-> "none"]

\* lines 1779-1784
fallbackCallerName(a, selected, existingName) ==
  IF Truthy(a.callerName) THEN a.callerName
  ELSE Coalesce(Coalesce(cleanCallerName(selected.name), existingName), JStr(SENTINEL))

\* lines 1786-1792
entityKindOf(callerName, selectedKind) ==
  IF containsBusinessKeyword(callerName.v) THEN "business"
  ELSE IF selectedKind = "none" /\ callerName.v # SENTINEL THEN "person"
  ELSE selectedKind

\* lines 1794-1824
fallbackEntityTag(a, kind, tagCandidate, personList, businessList) ==
  IF Truthy(a.entityTag) THEN a.entityTag
  ELSE IF kind = "business" THEN JStr("Bedrijf")
  ELSE IF kind = "person" THEN JStr("Particulier")
  ELSE IF Truthy(tagCandidate) THEN tagCandidate
  ELSE IF Len(businessList) > 0 /\ Len(personList) = 0 THEN JStr("Bedrijf")
  ELSE IF Len(personList) > 0 /\ Len(businessList) = 0 THEN JStr("Particulier")
  ELSE Null

settleEntity(a, callerName, entityTag, personList, businessList) ==
  [ callerName |-> callerName,
    entityTag |-> entityTag,
    personList |-> personList,
    businessList |-> businessList,
    nameSource |-> IF ~Truthy(a.callerName) /\ ~Truthy(a.nameSource) THEN JStr("fallback")
                   ELSE a.nameSource,
    entityTypeSource |-> IF ~Truthy(a.entityTag) /\ Truthy(entityTag) /\ ~Truthy(a.entityTypeSource)
                         THEN JStr("fallback") ELSE a.entityTypeSource ]

settleName(a, callerName, selectedKind, tagCandidate, personList, businessList) ==
  settleEntity(a, callerName,
               fallbackEntityTag(a, entityKindOf(callerName, selectedKind), tagCandidate,
                                 personList, businessList),
               personList, businessList)

settleCandidate(a, selected, tagCandidate, personList, businessList, existingName) ==
  settleName(a, fallbackCallerName(a, selected, existingName), selected.kind, tagCandidate,
             personList, businessList)

settleTag(a, tagCandidate, personList, businessList, existingName, isBusiness) ==
  settleCandidate(a, selectCandidate(tagCandidate, personList, businessList, existingName, isBusiness),
                  tagCandidate, personList, businessList, existingName)

settleLists(a, summary, metadata, analysis, personList, businessList, existingName, isBusiness) ==
  settleTag(a, deriveEntityTag(summary, firstCandidate(personList, businessList), metadata, analysis),
            personList, businessList, existingName, isBusiness)

\* the block of lines 1535-1825
fallbackIdentity(a, found, existing) ==
  settleLists(a, found.summary, found.metadata, found.analysis,
              personCandidates(found, existing), businessCandidates(found, existing),
              existingCallerNameOf(existing), existingIsBusiness(existing))

\* lines 1496-1829: callerName, entityTag, the candidate lists and the two sources
resolveIdentity(a, found, existing) ==
  IF ~Truthy(a.callerName) \/ ~Truthy(a.entityTag)
  THEN fallbackIdentity(a, found, existing)
  ELSE a

slice(str, n) == SubSeq(str, 1, IF Len(str) < n THEN Len(str) ELSE n)

determineCallOutcome(summary) == IF Truthy(summary) THEN "confirmed" ELSE "pending"

\* lines 1831-1837
callOutcomeOf(callOutcomeCandidate, summary, existing) ==
  IF IsString(callOutcomeCandidate) /\ callOutcomeCandidate.v \in {"confirmed", "voicemail", "pending"}
  THEN callOutcomeCandidate.v
  ELSE IF existing.t = "row" THEN existing.v.call_outcome
  ELSE determineCallOutcome(summary)

\* lines 1839-1860: finalTags
finalTagsOf(tagMap, entityTag) ==
  mapValues(IF Truthy(entityTag) THEN mapSet(tagMap, toLowerCase(entityTag.v), entityTag.v)
            ELSE tagMap)

\* lines 1862-1863
effectiveSummaryOf(n, existing) ==
  Coalesce(Coalesce(n.summary,
                    IF existing.t = "row"
                    THEN Coalesce(existing.v.summary, existing.v.transcript_preview) ELSE Null),
           IF Truthy(n.transcript) THEN JStr(slice(n.transcript.v, 240)) ELSE Null)

\* lines 1864-1865 and 1900
transcriptPreviewOf(value) == IF Truthy(value) THEN JStr(slice(value.v, 500)) ELSE Null

\* lines 1870-1894 and 1905
akaOf(akaList, existingAka) ==
  IF Len(akaList) > 0 THEN SubSeq(akaList, 1, IF Len(akaList) < 5 THEN Len(akaList) ELSE 5)
  ELSE existingAka

\* lines 1831-1909: the UpsertProfileInput
buildProfilePayload(n, normalizedNumber, existing, metadata, identity) ==
  [ normalized |-> normalizedNumber,
    callerName |-> identity.callerName.v,
    summary |-> effectiveSummaryOf(n, existing),
    transcriptPreview |->
      transcriptPreviewOf(
        Coalesce(Coalesce(n.transcript,
                          IF existing.t = "row" THEN existing.v.transcript_preview ELSE Null),
                 effectiveSummaryOf(n, existing))),
    confidence |->
      Coalesce(Coalesce(n.confidence,
                        IF existing.t = "row" /\ existing.v.confidence.t = "num"
                        THEN existing.v.confidence ELSE Null),
               Undefined),
    callOutcome |->
      callOutcomeOf(Coalesce(Get(metadata, "callOutcome"), Get(metadata, "call_outcome")),
                    n.summary, existing),
    tags |->
      finalTagsOf(mapSetAll(<<>>, existingTagsOf(existing)
                                  \o (IF Get(metadata, "tags").t = "arr"
                                      THEN metadataTagsOf(Get(metadata, "tags").v) ELSE <<>>)),
                  identity.entityTag),
    aka |->
      akaOf(mapValues(addAliases(addAliases(addAliases(<<>>, existingAkaOf(existing),
                                                       identity.callerName.v),
                                            identity.personList, identity.callerName.v),
                                 identity.businessList, identity.callerName.v)),
            existingAkaOf(existing)),
    nameSource |-> identity.nameSource,
    entityTypeSource |-> identity.entityTypeSource ]

\* lines 1486-1704 of POST: what the payload alone says about the caller: the
\* structured agent output and the names of its fields and texts
payloadSources(roots, payload, n) ==
  [ payload |-> payload, conversation |-> roots.conversation, metadata |-> roots.metadata,
    analysis |-> roots.analysis, summary |-> n.summary, transcript |-> n.transcript,
    transcriptMessages |-> n.transcriptMessages ]

foundIn(roots, payload, src) ==
  [ agentOutput |-> extractAgentOutput(roots.conversation, payload, roots.metadata, roots.analysis),
    persons |-> payloadPersons(src),
    businesses |-> payloadBusinesses(src),
    summary |-> src.summary, metadata |-> roots.metadata, analysis |-> roots.analysis ]

\* lines 1486-1909 of POST: the UpsertProfileInput built for a cached lookup status.
\* existing is the stored profile (Row) or Null.
profilePayloadOf(found, n, normalizedNumber, existing) ==
  buildProfilePayload(n, normalizedNumber, existing, found.metadata,
                      resolveIdentity(agentIdentity(found.agentOutput), found, existing))

(***************************************************************************)
(* Webhook handler POST.  A running handler is a record h of its locals    *)
(* and its position pc; every step runs the handler up to and including    *)
(* its next datastore call, as the awaits of the code do.                  *)
(***************************************************************************)
\* the stored projection of a payload object: the keys the client reads
PayloadColumn(payload, event, type) ==
  JObj([event |-> event, type |-> type, data |-> Get(payload, "data")])

\* enrichedPayload: { ...payload, event: event ?? undefined, type: event ?? undefined }
enrichedPayload(payload, n) == PayloadColumn(payload, n.event, n.event)

\* payloadForLookupUpdate
payloadForLookupUpdate(payload, n) ==
  LET value == IF n.event # Undefined THEN n.event
               ELSE IF n.hasCompletedData THEN JStr("post_call_transcription")
               ELSE Undefined
  IN PayloadColumn(payload, value, value)

\* the arguments of the update calls at lines 1241-1250, 1253-1262, 1384-1393 and 1411-1420
FullUpdate(n, payloadValue) ==
  [ status |-> n.statusToSet,
    elevenlabs_status |-> n.elevenLabsStatusToSet,
    payload |-> payloadValue,
    transcript |-> n.transcript,
    summary |-> n.summary,
    confidence |-> n.confidence ]

\* the arguments of the update calls of the initiation branch, lines 1303-1308 and 1320-1325
InitiationUpdate(n, payload, isStillScheduled) ==
  [ status |-> Coalesce(Coalesce(n.event, n.effectiveStatus),
                        IF isStillScheduled THEN JStr("initiating") ELSE JStr("connecting")),
    elevenlabs_status |-> Coalesce(n.effectiveStatus, Null),
    payload |-> PayloadColumn(payload, Get(payload, "event"), Get(payload, "type")) ]

(***************************************************************************)
(* The requests of the model.  A raw body is a short lower-case text that  *)
(* names a JSON document; JSON.parse is the table from the text to the     *)
(* document it denotes, or to a syntax error.                              *)
(***************************************************************************)
NUMBER_A == "+31612345678"
NUMBER_B == "+31201234567"

\* what the user types into the lookup form
RawInputs == {NUMBER_A, "0031 612345678", NUMBER_B, "0612345678"}

Messages == JArr(<<JObj([role |-> JStr("user"), message |-> JStr("hallo")])>>)

InitiationPayload(c) ==
  JObj([type |-> JStr("conversation_initiation_metadata"),
        data |-> JObj([conversation_id |-> JStr(c)])])

BarePayload(c) == JObj([conversation_id |-> JStr(c)])

InProgressPayload(c) ==
  JObj([conversation |-> JObj([id |-> JStr(c), status |-> JStr("in-progress")])])

CompletedPayload(c) ==
  JObj([type |-> JStr("post_call_transcription"),
        data |-> JObj([conversation_id |-> JStr(c), status |-> JStr("done"),
                       transcript |-> Messages,
                       analysis |-> JObj([transcript_summary |-> JStr("kort gesprek")])])])

ErrorWithTranscriptPayload(c) ==
  JObj([data |-> JObj([conversation_id |-> JStr(c), status |-> JStr("error"),
                       transcript |-> Messages])])

FailedPayload(c) ==
  JObj([conversation |-> JObj([conversation_id |-> JStr(c), status |-> JStr("failed")])])

TranscriptOnlyPayload(c) ==
  JObj([conversationId |-> JStr(c), conversation |-> JObj([transcript |-> JStr("hallo")])])

ErrorEventWithSummaryPayload(c) ==
  JObj([type |-> JStr("error"), conversation_id |-> JStr(c), summary |-> JStr("kort gesprek")])

ConsentPayload(c) ==
  JObj([type |-> JStr("post_call_transcription"),
        data |-> JObj([conversation_id |-> JStr(c), status |-> JStr("done"),
                       transcript |-> Messages,
                       analysis |-> JObj([
                         transcript_summary |-> JStr("kort gesprek"),
                         data_collection_results |-> JObj([
                           name |-> JObj([value |-> JStr("Jan Jansen")]),
                           consent |-> JObj([value |-> JBool(TRUE)]),
                           organisation |-> JObj([value |-> JBool(FALSE)])])])])])

\* a conversation the datastore does not know, resolved through metadata.lookupId
ByLookupIdPayload(c, lookupId) ==
  JObj([conversation |-> JObj([id |-> JStr(c), status |-> JStr("done"),
                               summary |-> JStr("kort gesprek"),
                               metadata |-> JObj([lookupId |-> JStr(lookupId)])])])

NoConversationIdPayload ==
  JObj([type |-> JStr("post_call_transcription"),
        conversation_id |-> JNum(7),
        data |-> JObj([status |-> JStr("done"), transcript |-> Messages])])

Parsed(value) == [ok |-> TRUE, value |-> value]
SyntaxError == [ok |-> FALSE]

BodiesOf(c) ==
  ("init-" \o c :> Parsed(InitiationPayload(c)))
  @@ ("done-" \o c :> Parsed(CompletedPayload(c)))
  @@ ("failed-" \o c :> Parsed(FailedPayload(c)))

Bodies ==
  BodiesOf("c1") @@ BodiesOf("c2")
  @@ ("bare-c1" :> Parsed(BarePayload("c1")))
  @@ ("progress-c1" :> Parsed(InProgressPayload("c1")))
  @@ ("errdata-c1" :> Parsed(ErrorWithTranscriptPayload("c1")))
  @@ ("text-c1" :> Parsed(TranscriptOnlyPayload("c1")))
  @@ ("errsum-c1" :> Parsed(ErrorEventWithSummaryPayload("c1")))
  @@ ("consent-c1" :> Parsed(ConsentPayload("c1")))
  @@ ("bylookup" :> Parsed(ByLookupIdPayload("c9", "l1")))
  @@ ("unknown" :> Parsed(BarePayload("c9")))
  @@ ("noid" :> Parsed(NoConversationIdPayload))
  @@ ("emptyid" :> Parsed(ByLookupIdPayload("", "l1")))
  @@ ("null" :> Parsed(Null))
  @@ ("{" :> SyntaxError)

\* a completed call of conversation c with a transcript, metadata and an analysis
IdentityPayload(c, transcript, metadata, analysis) ==
  JObj([type |-> JStr("post_call_transcription"),
        data |-> JObj([conversation_id |-> JStr(c), status |-> JStr("done"),
                       transcript |-> transcript, metadata |-> metadata,
                       analysis |-> analysis])])

\* the caller introduces himself
Introduction ==
  JArr(<< JObj([role |-> JStr("agent"), message |-> JStr("Goedemiddag, met wie spreek ik?")]),
          JObj([role |-> JStr("user"), message |-> JStr("Hallo, mijn naam is Jan de Vries.")]) >>)

Collected(results) ==
  JObj([transcript_summary |-> JStr("kort gesprek"), data_collection_results |-> JObj(results)])

Summarised == JObj([transcript_summary |-> JStr("kort gesprek")])

NamedPiet == JObj([callerName |-> JStr("Piet Smit")])

\* completed calls that say who called in the ways the resolver reads
IdentityBodies ==
  ("denied-c1" :>
     Parsed(IdentityPayload("c1", Introduction, NamedPiet,
              Collected([name |-> JObj([value |-> JStr("Jan Jansen")]),
                         consent |-> JObj([value |-> JBool(FALSE)])]))))
  @@ ("deniedbare-c1" :>
     Parsed(IdentityPayload("c1", Introduction, NamedPiet,
              Collected([consent |-> JObj([value |-> JBool(FALSE)])]))))
  @@ ("short-c1" :>
     Parsed(IdentityPayload("c1", Messages, NamedPiet,
              Collected([name |-> JObj([value |-> JStr("J")]),
                         consent |-> JObj([value |-> JBool(TRUE)]),
                         organisation |-> JObj([value |-> JBool(FALSE)])]))))
  @@ ("padded-c1" :>
     Parsed(IdentityPayload("c1", Introduction, NamedPiet,
              Collected([name |-> JObj([value |-> JStr(" Kees  Bakker. ")]),
                         consent |-> JObj([value |-> JStr("true")]),
                         organisation |-> JObj([value |-> JBool(TRUE)])]))))
  @@ ("generic-c1" :>
     Parsed(IdentityPayload("c1", Messages, EmptyObject,
              Collected([name |-> JObj([value |-> JStr("Unknown")]),
                         consent |-> JObj([value |-> JBool(TRUE)]),
                         organisation |-> JObj([value |-> JBool(FALSE)])]))))
  @@ ("intro-c1" :>
     Parsed(IdentityPayload("c1", Introduction, JObj([businessName |-> JStr("Route 66")]),
                            Summarised)))
  @@ ("shout-c1" :>
     Parsed(IdentityPayload("c1", Messages, JObj([businessName |-> JStr("ROUTE 66")]),
                            Summarised)))
  @@ ("elsewhere-c1" :>
     Parsed(IdentityPayload("c1", Messages, JObj([normalized |-> JStr(NUMBER_B)]), Summarised)))
  @@ ("spoken-c1" :> Parsed(IdentityPayload("c1", Introduction, EmptyObject, Summarised)))

\* a conversation in a vendor status, without a transcript or a summary
StatusPayload(c, status) ==
  JObj([conversation |-> JObj([id |-> JStr(c), status |-> JStr(status)])])

\* an event of a conversation, without a transcript or a summary
EventPayload(c, event) == JObj([type |-> JStr(event), data |-> JObj([conversation_id |-> JStr(c)])])

\* calls that ended without data: well, badly, and with the status as the vendor's
\* client library prints a byte string
OutcomeBodies ==
  ("ended-c1" :> Parsed(StatusPayload("c1", "done")))
  @@ ("success-c1" :> Parsed(StatusPayload("c1", "Success")))
  @@ ("wrapped-c1" :> Parsed(StatusPayload("c1", "b'Success'")))
  @@ ("cancelled-c1" :> Parsed(StatusPayload("c1", "cancelled")))
  @@ ("busy-c1" :> Parsed(StatusPayload("c1", "busy")))
  @@ ("noanswer-c1" :> Parsed(StatusPayload("c1", "no_answer")))
  @@ ("error-c1" :> Parsed(EventPayload("c1", "call_error")))
  @@ ("timeout-c1" :> Parsed(EventPayload("c1", "call_timeout")))

\* a completed call whose payload repeats the dynamic variables that
\* lookupPhoneNumber gave to the outbound call
EchoPayload(c, lookupId, normalized) ==
  JObj([type |-> JStr("post_call_transcription"),
        data |-> JObj([conversation_id |-> JStr(c), status |-> JStr("done"),
                       transcript |-> Messages,
                       conversation_initiation_client_data |->
                         JObj([dynamic_variables |->
                                 JObj([lookupId |-> JStr(lookupId),
                                       normalized |-> JStr(normalized)])]),
                       analysis |-> JObj([transcript_summary |-> JStr("kort gesprek")])])])

\* the completed call of the first lookup of the number
EchoBodies == ("echo-c1" :> Parsed(EchoPayload("c1", LookupIdOf(1), NUMBER_A)))

RawBodies ==
  DOMAIN Bodies \cup DOMAIN IdentityBodies \cup DOMAIN OutcomeBodies \cup DOMAIN EchoBodies \cup {""}

\* rawBody ? JSON.parse(rawBody) : {}
JSONparse(rawBody) ==
  IF rawBody = "" THEN Parsed(EmptyObject)
  ELSE IF rawBody \in DOMAIN Bodies THEN Bodies[rawBody]
  ELSE IF rawBody \in DOMAIN IdentityBodies THEN IdentityBodies[rawBody]
  ELSE IF rawBody \in DOMAIN EchoBodies THEN EchoBodies[rawBody]
  ELSE OutcomeBodies[rawBody]

\* payload = toPlainObject(...) of every body that parses
PayloadOf ==
  [b \in RawBodies |-> IF JSONparse(b).ok THEN toPlainObject(JSONparse(b).value) ELSE EmptyObject]
  @@ <<>>

\* the locals of POST for every body, computed once per body
NormalOf == [b \in RawBodies |-> Normalize(PayloadOf[b])] @@ <<>>

foundOf(roots, payload, n) == foundIn(roots, payload, payloadSources(roots, payload, n))

FoundOf ==
  [b \in RawBodies |-> foundOf(PayloadRoots(PayloadOf[b]), PayloadOf[b], NormalOf[b])] @@ <<>>

WEBHOOK_SECRET == "whsec"

\* the header the vendor computes for a body: t=<timestamp>,v0=<hex hmac of "timestamp.body">
SignedHeader(key, timestamp, rawBody) ==
  "t=" \o timestamp \o ",v0=" \o hmacSha256Hex(key, timestamp \o "." \o rawBody)

\* headers that lack a part or carry a signature that does not match the body
BadHeaders(rawBody) ==
  { Null,
    JStr("t=1"),
    JStr("v0=" \o hmacSha256Hex(WEBHOOK_SECRET, "1." \o rawBody)),
    JStr(SignedHeader(WEBHOOK_SECRET, "1", "bare-c1")),
    JStr("t=2,v0=" \o hmacSha256Hex(WEBHOOK_SECRET, "1." \o rawBody)),
    JStr(SignedHeader("other", "1", rawBody)) }

SignedRequests ==
  {[header |-> JStr(SignedHeader(WEBHOOK_SECRET, "1", b)), rawBody |-> b] :
     b \in DOMAIN Bodies \cup {""}}

\* a completed-call body under every bad header, and a body that does not parse without header
UnsignedRequests ==
  {[header |-> hd, rawBody |-> "done-c1"] : hd \in BadHeaders("done-c1")}
  \cup {[header |-> Null, rawBody |-> "{"]}

Requests == SignedRequests \cup UnsignedRequests

\* the condition of the 400 "Missing conversation id" at line 1000
MissingConversationId_lax(n) == n.conversationId.t # "str"

MissingConversationId(n) == ~Truthy(n.conversationId)

Finished(h, status, noteText) == [h EXCEPT !.pc = "done", !.http = status, !.note = noteText]

\* the locals of POST when the request arrives
Arrive(request) ==
  [ pc |-> "getLookupById_metadata", body |-> request.rawBody,
    payload |-> PayloadOf[request.rawBody], n |-> NormalOf[request.rawBody],
    resolvedLookupId |-> Null, lookupRecord |-> Null,
    existingCallAttempt |-> Null, isStillScheduled |-> FALSE,
    lookupIdFromCall |-> Null, effectiveLookupId |-> Null,
    latestLookup |-> Null, lookup |-> Null,
    profileId |-> Null, existingProfileRecord |-> Null,
    http |-> 0, note |-> "", log |-> <<>> ]

\* lines 909-1056: the checks before the first datastore call
Admit(webhookSecret, request, h0) ==
  IF ~verifyHmacSignature(webhookSecret, request.rawBody, request.header)
  THEN Finished(h0, 401, "Unauthorized")
  ELSE IF ~JSONparse(request.rawBody).ok THEN Finished(h0, 400, "Invalid JSON")
  ELSE IF MissingConversationId(h0.n)
  THEN Finished(h0, 400, "Missing conversation id")
  ELSE [h0 EXCEPT !.resolvedLookupId = Coalesce(h0.n.lookupId, Null)]

\* POST up to its first datastore call
Begin(webhookSecret, request) == Admit(webhookSecret, request, Arrive(request))

\* Begin for every configuration of the secret and every request of the model
BeginOf ==
  [a \in {Undefined, JStr(WEBHOOK_SECRET)}
          \X (Requests
              \cup {[header |-> JStr(SignedHeader(WEBHOOK_SECRET, "1", b)), rawBody |-> b] :
                      b \in DOMAIN IdentityBodies \cup DOMAIN OutcomeBodies \cup DOMAIN EchoBodies})
     |-> Begin(a[1], a[2])] @@ <<>>

\* a step that made no datastore call / one that made the call named by op
Skip(h, d, pc) == [h |-> [h EXCEPT !.pc = pc], d |-> d, acted |-> FALSE]
\* (a call that threw ends the handler in the catch of line 1951)
Call(h, d, pc, op) ==
  [ h |-> IF d.threw THEN Finished([h EXCEPT !.log = Append(@, op)], 500, "Internal server error")
          ELSE [h EXCEPT !.pc = pc, !.log = Append(@, op)],
    d |-> d, acted |-> TRUE ]

\* lines 1058-1073
ResolveFromMetadata(h, d) ==
  IF Truthy(h.resolvedLookupId)
  THEN LET fetchedLookup == getLookupById(d, h.resolvedLookupId.v)
       IN Call(IF fetchedLookup.t = "row" THEN [h EXCEPT !.lookupRecord = fetchedLookup]
               ELSE [h EXCEPT !.resolvedLookupId = Null],
               d, "getCallAttemptByConversationId", "getLookupById")
  ELSE Skip(h, d, "getCallAttemptByConversationId")

\* lines 1162-1164
ReadExistingCallAttempt(h, d) ==
  Call([h EXCEPT !.existingCallAttempt =
          getCallAttemptByConversationId(d, h.n.conversationId.v)],
       d, "getLookupById_attempt", "getCallAttemptByConversationId")

\* the refetch shared by lines 1168-1173 and 1277-1282
RefetchLookupRecord(h, d, lookupId, pc) ==
  IF h.lookupRecord.t # "row" \/ h.lookupRecord.v.id # lookupId
  THEN LET fetched == getLookupById(d, lookupId)
       IN Call(IF fetched.t = "row" THEN [h EXCEPT !.lookupRecord = fetched] ELSE h,
               d, pc, "getLookupById")
  ELSE Skip(h, d, pc)

\* lines 1166-1174
ResolveFromAttempt(h, d) ==
  IF /\ h.existingCallAttempt.t = "row"
     /\ Len(h.existingCallAttempt.v.lookup_id) > 0
     /\ ~Truthy(h.resolvedLookupId)
  THEN RefetchLookupRecord([h EXCEPT !.resolvedLookupId = JStr(h.existingCallAttempt.v.lookup_id)],
                           d, h.existingCallAttempt.v.lookup_id, "getLatestLookupByNormalized_pre")
  ELSE Skip(h, d, "getLatestLookupByNormalized_pre")

\* lines 1176-1188
ResolveFromNumber(h, d) ==
  LET n == h.n
      h1 == [h EXCEPT !.isStillScheduled =
               h.existingCallAttempt.t = "row" /\ h.existingCallAttempt.v.status = JStr("scheduled")]
  IN IF ~Truthy(h.resolvedLookupId) /\ Truthy(n.normalizedNumberPre)
     THEN LET latestLookup == getLatestLookupByNormalized(d, n.normalizedNumberPre.v)
          IN Call(IF latestLookup.t = "row"
                  THEN [h1 EXCEPT !.resolvedLookupId = JStr(latestLookup.v.id),
                                  !.lookupRecord = latestLookup]
                  ELSE h1,
                  d, "updateCallAttemptByConversation", "getLatestLookupByNormalized")
     ELSE Skip(h1, d, "updateCallAttemptByConversation")

\* lines 1239-1250
FirstUpdate(h, d) ==
  LET n == h.n
      r == updateCallAttemptByConversation(d, n.conversationId.v, FullUpdate(n, enrichedPayload(h.payload, n)))
  IN Call([h EXCEPT !.lookupIdFromCall = r.result], r.d,
          "updateCallAttemptByLookupId_fallback", "updateCallAttemptByConversation")

\* lines 1252-1268
FallbackUpdate(h, d) ==
  LET n == h.n
  IN IF ~Truthy(h.lookupIdFromCall) /\ Truthy(h.resolvedLookupId)
     THEN LET r == updateCallAttemptByLookupId(d, h.resolvedLookupId.v,
                                               FullUpdate(n, enrichedPayload(h.payload, n)))
          IN Call(IF r.result.t = "row"
                  THEN [h EXCEPT !.lookupIdFromCall = h.resolvedLookupId,
                                 !.existingCallAttempt = r.result]
                  ELSE h,
                  r.d, "getCallAttemptByConversationId_again", "updateCallAttemptByLookupId")
     ELSE Skip(h, d, "getCallAttemptByConversationId_again")

\* lines 1270-1272
RereadCallAttempt(h, d) ==
  IF Truthy(h.lookupIdFromCall)
  THEN Call([h EXCEPT !.existingCallAttempt =
               getCallAttemptByConversationId(d, h.n.conversationId.v)],
            d, "getLookupById_call", "getCallAttemptByConversationId")
  ELSE Skip(h, d, "getLookupById_call")

\* lines 1275-1283
ResolveFromCall(h, d) ==
  IF Truthy(h.lookupIdFromCall) /\ h.lookupIdFromCall # h.resolvedLookupId
  THEN RefetchLookupRecord([h EXCEPT !.resolvedLookupId = h.lookupIdFromCall],
                           d, h.lookupIdFromCall.v, "updateCallAttemptByConversation_initiation")
  ELSE Skip(h, d, "updateCallAttemptByConversation_initiation")

\* the guard of the initiation branch, line 1293 (conversationId is known to be set)
IsInitiationUpdate(n, isStillScheduled) ==
  /\ \/ n.isInitiationEvent
     \/ n.isInitiationStatus
     \/ isStillScheduled
     \/ (~n.hasCompletedData /\ ~n.hasCompletedData)
  /\ Truthy(n.conversationId)
  /\ ~n.hasCompletedData
  /\ ~n.isPostCallEvent

\* lines 1293-1334
InitiationBranch(h, d) ==
  LET n == h.n
      currentLookupId == Coalesce(Coalesce(h.resolvedLookupId, h.lookupIdFromCall), Null)
  IN IF /\ IsInitiationUpdate(n, h.isStillScheduled)
        /\ (Truthy(currentLookupId) \/ Truthy(h.lookupIdFromCall))
     THEN Call(h,
               updateCallAttemptByConversation(
                 d, n.conversationId.v,
                 InitiationUpdate(n, h.payload, h.isStillScheduled)).d,
               "getLatestLookupByNormalized_effective", "updateCallAttemptByConversation")
     ELSE Skip(h, d, "getLatestLookupByNormalized_effective")

\* the early return of line 1352
LookupIdMissing_strict(r) ==
  IF Truthy(r.h.effectiveLookupId) THEN r
  ELSE [r EXCEPT !.h = Finished(r.h, 404, "Lookup id missing")]

LookupIdMissing(r) ==
  IF Truthy(r.h.effectiveLookupId) THEN r
  ELSE [r EXCEPT !.h = Finished(r.h, 200, "Lookup id missing")]

\* lines 1336-1354
ResolveEffectiveLookupId(h, d) ==
  LET n == h.n
      h1 == [h EXCEPT !.effectiveLookupId =
               Coalesce(Coalesce(h.resolvedLookupId, h.lookupIdFromCall), Null)]
  IN IF ~Truthy(h1.effectiveLookupId) /\ Truthy(n.normalizedNumberPre)
     THEN LET latestLookup == getLatestLookupByNormalized(d, n.normalizedNumberPre.v)
          IN LookupIdMissing(
               Call(IF latestLookup.t = "row"
                    THEN [h1 EXCEPT !.effectiveLookupId = JStr(latestLookup.v.id),
                                    !.lookupRecord =
                                      IF h1.lookupRecord.t # "row" \/ h1.lookupRecord.v.id # latestLookup.v.id
                                      THEN latestLookup ELSE @]
                    ELSE h1,
                    d, "updateCallAttemptByLookupId", "getLatestLookupByNormalized"))
     ELSE LookupIdMissing(Skip(h1, d, "updateCallAttemptByLookupId"))

\* lines 1358-1393
UpdateByLookupId(h, d) ==
  LET n == h.n
  IN IF n.shouldUpdateByLookupId /\ Truthy(h.effectiveLookupId)
     THEN Call(h,
               updateCallAttemptByLookupId(d, h.effectiveLookupId.v,
                                           FullUpdate(n, payloadForLookupUpdate(h.payload, n))).d,
               "getLatestLookupByNormalized_mirror", "updateCallAttemptByLookupId")
     ELSE Skip(h, d, "getLookupById_effective")

\* lines 1399-1401
ReadLatestForMirror(h, d) ==
  LET n == h.n
  IN IF Truthy(n.normalizedNumberPre)
     THEN Call([h EXCEPT !.latestLookup = getLatestLookupByNormalized(d, n.normalizedNumberPre.v)],
               d, "updateCallAttemptByLookupId_mirror", "getLatestLookupByNormalized")
     ELSE Skip(h, d, "getLookupById_effective")

\* lines 1402-1422
MirrorUpdate(h, d) ==
  LET n == h.n
  IN IF h.latestLookup.t = "row" /\ h.latestLookup.v.id # h.effectiveLookupId.v
     THEN Call(h,
               updateCallAttemptByLookupId(d, h.latestLookup.v.id,
                                           FullUpdate(n, payloadForLookupUpdate(h.payload, n))).d,
               "getLookupById_effective", "updateCallAttemptByLookupId")
     ELSE Skip(h, d, "getLookupById_effective")

\* the early return of line 1445 and the profile id of line 1468
LookupNotFound(r) ==
  IF r.h.lookup.t = "row"
  THEN [r EXCEPT !.h.profileId = Coalesce(r.h.lookup.v.profile_id, Null)]
  ELSE [r EXCEPT !.h = Finished(r.h, 200, "Lookup not found")]

\* lines 1440-1446
ReadLookup(h, d) ==
  IF h.lookupRecord.t = "row" /\ h.lookupRecord.v.id = h.effectiveLookupId.v
  THEN LookupNotFound(Skip([h EXCEPT !.lookup = h.lookupRecord], d, "getProfile"))
  ELSE LookupNotFound(Call([h EXCEPT !.lookup = getLookupById(d, h.effectiveLookupId.v)],
                           d, "getProfile", "getLookupById"))

\* lines 1448-1466: the normalized number of the profile, or Null
normalizedNumberOf(n, lookup) ==
  LET normalizedSource ==
        IF IsString(n.metadataNormalized) THEN n.metadataNormalized
        ELSE Coalesce(JStr(lookup.v.normalized), n.conversationPhone)
  IN IF IsString(normalizedSource) THEN parsePhoneNumber(normalizedSource.v) ELSE Null

\* lines 1486-1494
ReadProfile_any(h, d) ==
  IF Truthy(normalizedNumberOf(h.n, h.lookup))
  THEN Call([h EXCEPT !.existingProfileRecord =
                        fetchProfileRecordByNumber(d, normalizedNumberOf(h.n, h.lookup).v)],
            d, "upsertPhoneProfile", "fetchProfileRecordByNumber")
  ELSE Skip(h, d, "updateLookupStatus")

ReadProfile(h, d) ==
  LET n == h.n
      normalizedNumber == normalizedNumberOf(n, h.lookup)
  IN IF n.lookupStatus = JStr("cached") /\ Truthy(normalizedNumber)
     THEN LET existingProfileRecord ==
                IF Truthy(h.profileId) THEN getProfileById(d, h.profileId.v)
                ELSE fetchProfileRecordByNumber(d, normalizedNumber.v)
          IN Call([h EXCEPT !.existingProfileRecord = existingProfileRecord,
                            !.profileId = IF ~Truthy(h.profileId) /\ existingProfileRecord.t = "row"
                                          THEN JStr(existingProfileRecord.v.id) ELSE @],
                  d, "upsertPhoneProfile",
                  IF Truthy(h.profileId) THEN "getProfileById" ELSE "fetchProfileRecordByNumber")
     ELSE Skip(h, d, "updateLookupStatus")

\* lines 1496-1930
UpsertProfile(h, d) ==
  LET n == h.n
      r == upsertPhoneProfile(
             d, profilePayloadOf(FoundOf[h.body], n, normalizedNumberOf(n, h.lookup).v,
                                 h.existingProfileRecord))
  IN Call(IF Truthy(r.result) THEN [h EXCEPT !.profileId = r.result] ELSE h,
          r.d, "updateLookupStatus", "upsertPhoneProfile")

\* lines 1932-1950
WriteLookupStatus(h, d) ==
  LET n == h.n
  IN IF Truthy(n.lookupStatus)
     THEN Call(Finished(h, 200, ""),
               updateLookupStatus(d, h.effectiveLookupId.v, n.lookupStatus.v,
                                  Coalesce(h.profileId, Undefined)),
               "done", "updateLookupStatus")
     ELSE Skip(Finished(h, 200, ""), d, "done")

\* the handler from its position h.pc to the end of its next datastore call
StepAt(h, d) ==
  CASE h.pc = "getLookupById_metadata" -> ResolveFromMetadata(h, d)
    [] h.pc = "getCallAttemptByConversationId" -> ReadExistingCallAttempt(h, d)
    [] h.pc = "getLookupById_attempt" -> ResolveFromAttempt(h, d)
    [] h.pc = "getLatestLookupByNormalized_pre" -> ResolveFromNumber(h, d)
    [] h.pc = "updateCallAttemptByConversation" -> FirstUpdate(h, d)
    [] h.pc = "updateCallAttemptByLookupId_fallback" -> FallbackUpdate(h, d)
    [] h.pc = "getCallAttemptByConversationId_again" -> RereadCallAttempt(h, d)
    [] h.pc = "getLookupById_call" -> ResolveFromCall(h, d)
    [] h.pc = "updateCallAttemptByConversation_initiation" -> InitiationBranch(h, d)
    [] h.pc = "getLatestLookupByNormalized_effective" -> ResolveEffectiveLookupId(h, d)
    [] h.pc = "updateCallAttemptByLookupId" -> UpdateByLookupId(h, d)
    [] h.pc = "getLatestLookupByNormalized_mirror" -> ReadLatestForMirror(h, d)
    [] h.pc = "updateCallAttemptByLookupId_mirror" -> MirrorUpdate(h, d)
    [] h.pc = "getLookupById_effective" -> ReadLookup(h, d)
    [] h.pc = "getProfile" -> ReadProfile(h, d)
    [] h.pc = "upsertPhoneProfile" -> UpsertProfile(h, d)
    [] h.pc = "updateLookupStatus" -> WriteLookupStatus(h, d)
    [] OTHER -> Skip(h, d, "done")

\* one scheduling quantum of a handler: up to and including one datastore call
RECURSIVE Step(_, _)
StepOn(r) == IF r.acted \/ r.h.pc = "done" THEN r ELSE Step(r.h, r.d)
Step(h, d) == StepOn(StepAt(h, d))

\* a handler that runs to its response without interleaving
RECURSIVE Run(_, _)
RunOn(r) == Run(r.h, r.d)
Run(h, d) == IF h.pc = "done" THEN [h |-> h, d |-> d] ELSE RunOn(StepAt(h, d))

\* POST: the handler's final locals and the datastore after it
POST(webhookSecret, request, d) == Run(BeginOf[<<webhookSecret, request>>], d)

(***************************************************************************)
(* Status endpoint GET /api/lookups/[id]/status.  A timestamp is tagged    *)
(* with where it was taken: a column of the database or the clock of the   *)
(* server; the same instant reads differently in the two.                  *)
(***************************************************************************)
DbTime(t) == [src |-> "db", at |-> t]
ServerTime(t) == [src |-> "server", at |-> t]
Time(x) == [t |-> "time", v |-> x]

\* row?.column
Field(row, column) == IF row.t = "row" THEN row.v[column] ELSE Undefined

\* a key of a stored JSON object is present when it was not undefined on writing
HasKey(o, k) == Get(o, k) # Undefined

\* generateETag: the quoted timestamp
generateETag(updatedAt, clock) ==
  [quoted |-> IF updatedAt.t \in {"null", "undefined"} THEN ServerTime(clock) ELSE updatedAt.v]

mapProfileRecord(record) ==
  [ normalized |-> record.normalized,
    callerName |-> record.caller_name,
    aka |-> record.aka,
    summary |-> Coalesce(record.summary, JStr("")),
    transcriptPreview |-> Coalesce(record.transcript_preview, JStr("")),
    lastChecked |-> DbTime(record.last_checked),
    confidence |-> Coalesce(record.confidence, JNum(0)),
    callOutcome |-> record.call_outcome,
    tags |-> record.tags ]

fetchProfileByNumber(d, normalized) ==
  IF fetchProfileRecordByNumber(d, normalized).t = "row"
  THEN Row(mapProfileRecord(fetchProfileRecordByNumber(d, normalized).v))
  ELSE Null

maxRetries == 10

\* a loop that retries while the data looks stale, whatever the count
budgetRemains_always(retries) == retries >= 0

\* the retry budget of line 136
budgetRemains(retries) == retries < maxRetries - 1

\* one round of the while loop, lines 108-176, over the datastore d as it is in
\* that round: what was fetched, the predicates, and the locals after the round
fetchRound(d, lookup, retries, lastCallAttemptUpdatedAt, lastLookupStatus) ==
  LET attempt == getLatestCallAttempt(d, lookup.id)
      profile == IF Truthy(lookup.profile_id) THEN getProfileById(d, lookup.profile_id.v) ELSE Null
      freshLookup == getLookupById(d, lookup.id)
      lookupStatusChanged == freshLookup.t = "row" /\ freshLookup.v.status # lastLookupStatus
      callAttemptUpdatedAt == IF attempt.t = "row" THEN JNum(attempt.v.updated_at) ELSE Null
      callAttemptGotNewer ==
        /\ callAttemptUpdatedAt.t = "num"
        /\ (lastCallAttemptUpdatedAt.t # "num" \/ callAttemptUpdatedAt.v > lastCallAttemptUpdatedAt.v)
      gotStaleData ==
        /\ freshLookup.t = "row" /\ freshLookup.v.status = "cached"
        /\ attempt.t = "row" /\ attempt.v.status = JStr("scheduled")
      hasNewDataButIncomplete ==
        /\ callAttemptGotNewer
        /\ attempt.v.status = JStr("post_call_transcription")
        /\ (~Truthy(attempt.v.summary) \/ ~Truthy(attempt.v.transcript))
      shouldRetry == lookupStatusChanged \/ gotStaleData \/ hasNewDataButIncomplete
      retry == shouldRetry /\ budgetRemains(retries)
      refreshed == IF freshLookup.t = "row"
                   THEN [lookup EXCEPT !.status = freshLookup.v.status,
                                       !.profile_id = freshLookup.v.profile_id]
                   ELSE lookup
  IN [ retry |-> retry,
       lookupStatusChanged |-> lookupStatusChanged,
       gotStaleData |-> gotStaleData,
       hasNewDataButIncomplete |-> hasNewDataButIncomplete,
       rawCallAttempt |-> attempt,
       profileRecord |-> profile,
       lookup |-> refreshed,
       retries |-> IF retry THEN retries + 1 ELSE retries,
       lastCallAttemptUpdatedAt |-> callAttemptUpdatedAt,
       lastLookupStatus |-> IF retry /\ freshLookup.t = "row" THEN freshLookup.v.status
                            ELSE lastLookupStatus ]

\* the while loop of lines 107-177 over a datastore that does not change during the read
RECURSIVE retryLoop(_, _, _, _, _)
retryAgain(d, r) ==
  IF r.retry /\ r.retries < maxRetries
  THEN retryLoop(d, r.lookup, r.retries, r.lastCallAttemptUpdatedAt, r.lastLookupStatus)
  ELSE r
retryLoop(d, lookup, retries, lastCallAttemptUpdatedAt, lastLookupStatus) ==
  retryAgain(d, fetchRound(d, lookup, retries, lastCallAttemptUpdatedAt, lastLookupStatus))

\* buildSnapshot: the callAttempt of the response, or Null
buildSnapshot(raw, currentProfile, lookupStatus, clock) ==
  LET isCached == lookupStatus = "cached"
      hasRaw == raw.t = "row"
      rawPayload == Field(raw, "payload")
      payloadBase == IF hasRaw /\ rawPayload.t = "obj" THEN rawPayload ELSE EmptyObject
      withDefaults ==
        IF isCached /\ ~hasRaw
        THEN JObj([event |-> IF HasKey(payloadBase, "event") THEN Get(payloadBase, "event")
                             ELSE JStr("post_call_transcription"),
                   type |-> IF HasKey(payloadBase, "type") THEN Get(payloadBase, "type")
                            ELSE JStr("post_call_transcription")])
        ELSE payloadBase
      hasKeys == HasKey(withDefaults, "event") \/ HasKey(withDefaults, "type")
  IN IF ~hasRaw /\ ~isCached /\ currentProfile.t # "row" THEN Null
     ELSE Row(
       [ status |-> IF isCached /\ ~hasRaw THEN JStr("post_call_transcription")
                    ELSE Coalesce(Field(raw, "status"), Null),
         elevenlabs_status |-> IF isCached /\ ~hasRaw THEN JStr("post_call_transcription")
                               ELSE Coalesce(Field(raw, "elevenlabs_status"), Null),
         error_message |-> Coalesce(Field(raw, "error_message"), Null),
         summary |->
           Coalesce(Coalesce(Coalesce(Coalesce(Field(raw, "summary"),
                                               Field(currentProfile, "summary")),
                                      Field(currentProfile, "transcriptPreview")),
                             Field(raw, "transcript")),
                    Null),
         transcript |->
           Coalesce(Coalesce(Field(raw, "transcript"), Field(currentProfile, "transcriptPreview")), Null),
         confidence |->
           Coalesce(Coalesce(Field(raw, "confidence"), Field(currentProfile, "confidence")), Null),
         updated_at |->
           IF hasRaw THEN DbTime(raw.v.updated_at)
           ELSE IF currentProfile.t = "row" THEN currentProfile.v.lastChecked
           ELSE ServerTime(clock),
         payload |-> IF hasKeys THEN withDefaults ELSE Coalesce(rawPayload, Null) ])

CACHE_CONTROL == "no-cache, no-store, must-revalidate"

\* a conditional request answered whenever it carries the header, whatever its value
notModified_present(ifNoneMatch, etag) == ifNoneMatch.t = "etag"

\* ifNoneMatch && ifNoneMatch === etag, line 270
notModified(ifNoneMatch, etag) == ifNoneMatch.t = "etag" /\ ifNoneMatch.v = etag

\* lines 178-310: the response built from what the retry loop fetched
respond(d, fetched, lookupId, ifNoneMatch, clock) ==
  LET lookup == fetched.lookup
      rawCallAttempt == fetched.rawCallAttempt
      profileFromDb == IF fetched.profileRecord.t = "row"
                       THEN Row(mapProfileRecord(fetched.profileRecord.v)) ELSE Null
      profileByNumber ==
        IF profileFromDb.t # "row" /\ lookup.status \in {"cached", "calling"}
        THEN fetchProfileByNumber(d, lookup.normalized) ELSE Null
      profile == Coalesce(profileFromDb, profileByNumber)
      snapshot == buildSnapshot(rawCallAttempt, profile, lookup.status, clock)
      latestUpdatedAt ==
        Coalesce(Coalesce(IF rawCallAttempt.t = "row"
                          THEN Time(DbTime(rawCallAttempt.v.updated_at)) ELSE Undefined,
                          IF lookup.status = "cached" THEN Time(ServerTime(clock)) ELSE Null),
                 Time(ServerTime(clock)))
      etag == generateETag(latestUpdatedAt, clock)
      data == [lookup |-> lookup, callAttempt |-> snapshot, profile |-> profile]
      unchanged == notModified(ifNoneMatch, etag)
  IN [ http |-> IF unchanged THEN 304 ELSE 200,
       id |-> lookupId,
       etag |-> etag,
       retries |-> fetched.retries,
       data |-> data,
       body |-> IF unchanged THEN Null ELSE Row(data),
       headers |-> IF unchanged
                   THEN [ETag |-> etag, CacheControl |-> CACHE_CONTROL]
                   ELSE [ETag |-> etag, CacheControl |-> CACHE_CONTROL,
                         LastModified |-> latestUpdatedAt.v] ]

\* the answer for a lookup id that is not in the table, lines 88-92
notFound(lookupId) ==
  [ http |-> 404, id |-> lookupId, body |-> Row([error |-> "Lookup not found"]),
    headers |-> <<>> ]

\* GET: the response to a status read at server time clock; ifNoneMatch is Null or an ETag
GET(d, lookupId, ifNoneMatch, clock) ==
  IF getLookupById(d, lookupId).t # "row" THEN notFound(lookupId)
  ELSE respond(d,
               retryLoop(d, getLookupById(d, lookupId).v, 0, Null,
                         getLookupById(d, lookupId).v.status),
               lookupId, ifNoneMatch, clock)

(***************************************************************************)
(* The system: the lookup action, the webhook endpoint and the status      *)
(* endpoint over one datastore.                                            *)
(***************************************************************************)
\* d.down names the write calls to which Supabase answers with an error while a
\* request is handled, and d.threw tells that a call has thrown
D ==
  [ lookups |-> lookups, attempts |-> attempts, profiles |-> profiles, now |-> now,
    down |-> {}, threw |-> FALSE ]

NoRead == [http |-> 0, id |-> ""]

Init ==
  /\ secret \in {Undefined, JStr(WEBHOOK_SECRET)}
  /\ lookups = <<>>
  /\ attempts = <<>>
  /\ profiles = <<>>
  /\ now = 0
  /\ last = [kind |-> "start"]
  /\ reads = [cur |-> NoRead, prev |-> NoRead, unchanged |-> FALSE, dirty |-> FALSE]
  /\ race = [phase |-> "idle"]
  /\ fetch = [pc |-> "idle"]
  /\ client = [mounted |-> FALSE]

\* the datastore after a step differs from the one before it
Written(d) == d.lookups # lookups \/ d.attempts # attempts \/ d.profiles # profiles

Store(d) ==
  /\ lookups' = d.lookups
  /\ attempts' = d.attempts
  /\ profiles' = d.profiles
  /\ now' = d.now
  /\ reads' = IF Written(d) /\ reads.cur.http # 0 THEN [reads EXCEPT !.dirty = TRUE] ELSE reads

\* the call_attempts row recordCallAttempt inserts
NewAttempt(i, status, conversationId, elevenLabsStatus, errorMessage, stamp) ==
  Row([ id |-> AttemptIdOf(i),
        lookup_id |-> LookupIdOf(i),
        elevenlabs_conversation_id |-> conversationId,
        status |-> JStr(status),
        elevenlabs_status |-> elevenLabsStatus,
        error_message |-> errorMessage,
        transcript |-> Null,
        summary |-> Null,
        confidence |-> Null,
        payload |-> IF status = "scheduled" THEN PayloadColumn(EmptyObject, Undefined, Undefined) ELSE Null,
        updated_at |-> stamp ])

\* lookupPhoneNumber: outcome is what startOutboundCall does
recordLookup(input, outcome) ==
  /\ Len(lookups) < MaxLookups
  /\ now < MaxClock
  /\ LET normalized == parsePhoneNumber(input)
         i == Len(lookups) + 1
         supabaseProfile == fetchProfileRecordByNumber(D, normalized.v)
     IN /\ normalized.t = "str"
        /\ IF supabaseProfile.t = "row"
           THEN Store([D EXCEPT
                  !.lookups = Append(@, [id |-> LookupIdOf(i), normalized |-> normalized.v,
                                         status |-> "cached",
                                         profile_id |-> JStr(supabaseProfile.v.id)]),
                  !.attempts = Append(@, Null)])
           ELSE Store([D EXCEPT
                  !.lookups = Append(@, [id |-> LookupIdOf(i), normalized |-> normalized.v,
                                         status |-> "calling", profile_id |-> Null]),
                  !.attempts = Append(@,
                     CASE outcome = "started" ->
                            NewAttempt(i, "scheduled", JStr(ConversationIdOf(i)), JStr("Success"),
                                       Null, now + 1)
                       [] outcome = "started without conversation id" ->
                            NewAttempt(i, "scheduled", Null, JStr("Success"), Null, now + 1)
                       [] OTHER ->
                            NewAttempt(i, "failed", Null, Null, JStr("ElevenLabs call failed"),
                                       now + 1)),
                  !.now = now + 1])
        /\ last' = [kind |-> "lookup"]

LookupPhoneNumber(input, outcome) ==
  /\ recordLookup(input, outcome)
  /\ UNCHANGED <<secret, race, fetch, client>>

CallOutcomes == {"started", "started without conversation id", "failed"}

\* one webhook request handled from its arrival to its response
Respond(request, r) ==
  /\ Store(r.d)
  /\ last' = [ kind |-> "webhook", request |-> request, http |-> r.h.http,
               note |-> r.h.note, log |-> r.h.log,
               effectiveLookupId |-> r.h.effectiveLookupId, down |-> r.d.down ]

Webhook(request) ==
  /\ now < MaxClock
  /\ Respond(request, POST(secret, request, D))
  /\ UNCHANGED <<secret, race, fetch, client>>

\* the write calls of the webhook endpoint
WriteCalls ==
  {"updateCallAttemptByConversation", "updateCallAttemptByLookupId", "upsertPhoneProfile",
   "updateLookupStatus"}

\* one webhook request handled while Supabase answers the calls in down with an error
WebhookDuringOutage(request, down) ==
  /\ now < MaxClock
  /\ down # {}
  /\ Respond(request, POST(secret, request, [D EXCEPT !.down = down]))
  /\ UNCHANGED <<secret, race, fetch, client>>

\* one status read; the client sends the ETag of its previous read of the lookup or none
StatusRead(lookupId, conditional) ==
  /\ now < MaxClock
  /\ LET ifNoneMatch ==
           IF conditional /\ reads.cur.http \in {200, 304} /\ reads.cur.id = lookupId
           THEN [t |-> "etag", v |-> reads.cur.etag] ELSE Null
         response == GET(D, lookupId, ifNoneMatch, now + 1)
     IN /\ reads' = [ cur |-> response,
                      prev |-> IF reads.cur.id = lookupId THEN reads.cur ELSE NoRead,
                      unchanged |-> ~reads.dirty,
                      dirty |-> FALSE ]
        /\ last' = [kind |-> "read", lookupId |-> lookupId, ifNoneMatch |-> ifNoneMatch]
  /\ now' = now + 1
  /\ UNCHANGED <<secret, lookups, attempts, profiles, race, fetch, client>>

LookupIds == {LookupIdOf(i) : i \in 1..MaxLookups}

Next ==
  \/ \E input \in RawInputs, outcome \in CallOutcomes : LookupPhoneNumber(input, outcome)
  \/ \E request \in Requests : Webhook(request)

Spec == Init /\ [][Next]_vars

\* the status endpoint is observed with the secret configured, lookups of one
\* number and signed webhooks of the conversations of those lookups
StatusInputs == {NUMBER_A, "0612345678"}

StatusRequests ==
  {[header |-> JStr(SignedHeader(WEBHOOK_SECRET, "1", b)), rawBody |-> b] :
     b \in {"init-c1", "done-c1", "failed-c1", "done-c2"}}

InitStatus == Init /\ Truthy(secret)

NextStatus ==
  \/ \E input \in StatusInputs, outcome \in CallOutcomes : LookupPhoneNumber(input, outcome)
  \/ \E request \in StatusRequests : Webhook(request)
  \/ \E lookupId \in LookupIds, conditional \in BOOLEAN : StatusRead(lookupId, conditional)

SpecStatus == InitStatus /\ [][NextStatus]_vars

(***************************************************************************)
(* Two webhooks of one conversation in flight at once: the initiation and  *)
(* the completion webhook are both accepted, and the scheduler runs one    *)
(* handler at a time up to and including its next datastore call.          *)
(***************************************************************************)
SignedRequest(b) == [header |-> JStr(SignedHeader(WEBHOOK_SECRET, "1", b)), rawBody |-> b]

Conversations == {ConversationIdOf(i) : i \in 1..MaxLookups}

\* both requests arrive; race.base keeps the datastore they arrived at
DeliverPair(c) ==
  /\ race.phase = "idle"
  /\ getCallAttemptByConversationId(D, c).t = "row"
  /\ race' = [ phase |-> "running", c |-> c, base |-> D,
               hs |-> << BeginOf[<<secret, SignedRequest("init-" \o c)>>],
                         BeginOf[<<secret, SignedRequest("done-" \o c)>> ] >> ]
  /\ last' = [kind |-> "deliver"]
  /\ UNCHANGED <<secret, lookups, attempts, profiles, now, reads, fetch, client>>

Advance(slot, r) ==
  /\ Store(r.d)
  /\ race' = [race EXCEPT !.hs[slot] = r.h]
  /\ last' = [kind |-> "step", slot |-> slot, pc |-> r.h.pc]

\* the handler in slot runs up to and including its next datastore call
StepHandler(slot) ==
  /\ race.phase = "running"
  /\ race.hs[slot].pc # "done"
  /\ now < MaxClock
  /\ Advance(slot, Step(race.hs[slot], D))
  /\ UNCHANGED <<secret, fetch, client>>

NextRace ==
  \/ \E input \in RawInputs, outcome \in CallOutcomes : LookupPhoneNumber(input, outcome)
  \/ \E c \in Conversations : DeliverPair(c)
  \/ \E slot \in {1, 2} : StepHandler(slot)

SpecRace == Init /\ [][NextRace]_vars

(***************************************************************************)
(* Completed calls of one number whose payloads name the caller: by the    *)
(* structured agent output, in the transcript, in the metadata, or not at  *)
(* all, so that the stored profile of the number is read and rewritten.    *)
(***************************************************************************)
IdentityRequests ==
  {SignedRequest(b) : b \in DOMAIN IdentityBodies \cup {"consent-c1", "done-c1", "failed-c1", "init-c1"}}

NextIdentity ==
  \/ LookupPhoneNumber(NUMBER_A, "started")
  \/ \E request \in IdentityRequests : Webhook(request)

SpecIdentity == InitStatus /\ [][NextIdentity]_vars

(***************************************************************************)
(* Calls of one number that end without a transcript or a summary; the     *)
(* webhook tells the outcome by the vendor status or by the event alone.   *)
(***************************************************************************)
OutcomeRequests == {SignedRequest(b) : b \in DOMAIN OutcomeBodies \cup {"init-c1"}}

\* lookups of one number, one after the other, and the webhooks of their calls
MirrorRequests == {SignedRequest(b) : b \in {"echo-c1", "init-c1", "done-c2", "failed-c2"}}

NextMirror ==
  \/ \E outcome \in CallOutcomes : LookupPhoneNumber(NUMBER_A, outcome)
  \/ \E request \in MirrorRequests : Webhook(request)

SpecMirror == InitStatus /\ [][NextMirror]_vars

NextOutcome ==
  \/ \E outcome \in {"started", "failed"} : LookupPhoneNumber(NUMBER_A, outcome)
  \/ \E request \in OutcomeRequests : Webhook(request)

SpecOutcome == InitStatus /\ [][NextOutcome]_vars

(***************************************************************************)
(* Webhooks of one call while writes to Supabase fail.                     *)
(***************************************************************************)
OutageRequests == {SignedRequest(b) : b \in {"init-c1", "done-c1"}}

\* the outages: one write call fails, or all of them do
Outages == {{w} : w \in WriteCalls} \cup {WriteCalls}

NextOutage ==
  \/ LookupPhoneNumber(NUMBER_A, "started")
  \/ \E request \in OutageRequests : Webhook(request)
  \/ \E request \in OutageRequests, down \in Outages : WebhookDuringOutage(request, down)

SpecOutage == InitStatus /\ [][NextOutage]_vars

(***************************************************************************)
(* The verifier on its own: verifyHmacSignature is called for an           *)
(* environment (NODE_ENV, the secret) and a request, and last keeps the    *)
(* inputs, the verdict and the console.error calls of the verifier.  The   *)
(* requests are the ones the vendor signs, in every scheme and encoding,   *)
(* and those with one character of the body, the header or the secret      *)
(* replaced.                                                               *)
(***************************************************************************)
\* the console.error calls of verifyHmacSignature (lines 440-492); it makes no
\* other call of console
verifierErrors(isDev, webhookSecret, rawBody, signatureHeader) ==
  IF ~Truthy(webhookSecret) THEN <<>>
  ELSE IF ~Truthy(signatureHeader)
  THEN IF isDev THEN <<"ElevenLabs webhook missing signature header">> ELSE <<>>
  ELSE IF \/ ~Truthy(PartOf(headerParts(split(signatureHeader.v, ","), <<>>), "t"))
          \/ \A k \in {"v0", "v1", "v2"} :
               ~Truthy(PartOf(headerParts(split(signatureHeader.v, ","), <<>>), k))
  THEN IF isDev
       THEN <<"ElevenLabs webhook signature header missing timestamp or signature">>
       ELSE <<>>
  ELSE IF ~verifyHmacSignature(webhookSecret, rawBody, signatureHeader) /\ isDev
  THEN <<"ElevenLabs webhook signature mismatch">>
  ELSE <<>>

VerifierBody == "done-c1"
VerifierTimestamp == "1"

\* what the vendor sends for a body: t=<timestamp>,<scheme>=<signature>, the
\* signature in hex or in base64
Encoded(hex, encoding) == IF encoding = "hex" THEN hex ELSE base64OfHex(hex)

VendorHeader(key, timestamp, rawBody, scheme, encoding) ==
  "t=" \o timestamp \o "," \o scheme \o "="
       \o Encoded(hmacSha256Hex(key, timestamp \o "." \o rawBody), encoding)

Schemes == {"v0", "v1", "v2"}
Encodings == {"hex", "base64"}

VendorHeaders ==
  {VendorHeader(WEBHOOK_SECRET, VerifierTimestamp, VerifierBody, scheme, encoding) :
     scheme \in Schemes, encoding \in Encodings}

\* the characters a replaced character becomes; those put into a body or a
\* secret are lower-case letters and digits, as the digits of a digest are
HeaderChars == {"a", "A", "e", "E", "0", "1", "2", "7", "=", ",", " ", "z"}
DigestChars == {"a", "e", "0", "7", "z"}

\* the strings that differ from str in the one character at a position
Replaced(str, chars) ==
  {SubSeq(str, 1, i - 1) \o c \o SubSeq(str, i + 1, Len(str)) : i \in 1..Len(str), c \in chars}
    \ {str}

\* str and other have equal length and differ in exactly one position
OneApart(str, other) ==
  /\ Len(str) = Len(other)
  /\ Cardinality({i \in 1..Len(str) : CharAt(str, i) # CharAt(other, i)}) = 1

Case(isDev, webhookSecret, rawBody, signatureHeader) ==
  [isDev |-> isDev, secret |-> webhookSecret, rawBody |-> rawBody, header |-> signatureHeader]

VerifierCases ==
  {Case(isDev, webhookSecret, VerifierBody, header) :
     isDev \in BOOLEAN, webhookSecret \in {Undefined, JStr("")},
     header \in {Null, JStr("t=1"),
                 JStr(SignedHeader("other", VerifierTimestamp, VerifierBody))}}
  \cup {Case(isDev, JStr(WEBHOOK_SECRET), VerifierBody, JStr(header)) :
          isDev \in BOOLEAN, header \in VendorHeaders}
  \cup {Case(TRUE, JStr(WEBHOOK_SECRET), VerifierBody, JStr(header)) :
          header \in Replaced(SignedHeader(WEBHOOK_SECRET, VerifierTimestamp, VerifierBody),
                              HeaderChars)}
  \cup {Case(TRUE, JStr(WEBHOOK_SECRET), rawBody,
              JStr(SignedHeader(WEBHOOK_SECRET, VerifierTimestamp, VerifierBody))) :
          rawBody \in Replaced(VerifierBody, DigestChars)}
  \cup {Case(TRUE, JStr(webhookSecret), VerifierBody,
              JStr(SignedHeader(WEBHOOK_SECRET, VerifierTimestamp, VerifierBody))) :
          webhookSecret \in Replaced(WEBHOOK_SECRET, DigestChars)}

\* verifyHmacSignature is called, once in a behaviour: it keeps no state
Verify(c) ==
  /\ last.kind = "start"
  /\ last' = [ kind |-> "verify", isDev |-> c.isDev, secret |-> c.secret,
               rawBody |-> c.rawBody, header |-> c.header,
               verified |-> verifyHmacSignature(c.secret, c.rawBody, c.header),
               errors |-> verifierErrors(c.isDev, c.secret, c.rawBody, c.header) ]
  /\ UNCHANGED <<secret, lookups, attempts, profiles, now, reads, race, fetch, client>>

NextVerifier == \E c \in VerifierCases : Verify(c)

SpecVerifier == InitStatus /\ [][NextVerifier]_vars

(***************************************************************************)
(* One status request handled step by step: the lookup is read, the        *)
(* handler sleeps 500 ms, then runs the rounds of the retry loop with a    *)
(* sleep of 1000 ms before each further round, then builds the response.   *)
(* Between the steps webhooks write, and the datastore may answer a round  *)
(* with rows that differ from those of the round before (Drift), as a      *)
(* store does that has not converged.                                      *)
(***************************************************************************)
RetryRequests ==
  {SignedRequest(b) : b \in {"done-c1", "errdata-c1"}}

\* the sleeps in milliseconds: before the loop (line 96), before a further round (line 165)
InitialDelay == 500
RetryDelay == 1000

\* lines 84-105: the request arrives
FetchStart(lookupId) ==
  /\ fetch.pc = "idle"
  /\ fetch' = IF getLookupById(D, lookupId).t # "row"
              THEN [pc |-> "done", lookupId |-> lookupId, found |-> FALSE, rounds |-> 0,
                    waits |-> 0, slept |-> 0, response |-> notFound(lookupId)]
              ELSE [pc |-> "round", lookupId |-> lookupId, found |-> TRUE,
                    lookup |-> getLookupById(D, lookupId).v,
                    retries |-> 0,
                    lastCallAttemptUpdatedAt |-> Null,
                    lastLookupStatus |-> getLookupById(D, lookupId).v.status,
                    rounds |-> 0, waits |-> 0, slept |-> InitialDelay, drifted |-> FALSE,
                    touched |-> FALSE]
  /\ last' = [kind |-> "fetch"]
  /\ UNCHANGED <<secret, lookups, attempts, profiles, now, reads, race, client>>

\* the locals after a round; a retry sleeps 1000 ms, lines 136-166
AfterRound(f, r) ==
  [ pc |-> IF r.retry /\ r.retries < maxRetries THEN "round" ELSE "respond",
    lookupId |-> f.lookupId, found |-> TRUE,
    lookup |-> r.lookup,
    retries |-> r.retries,
    lastCallAttemptUpdatedAt |-> r.lastCallAttemptUpdatedAt,
    lastLookupStatus |-> r.lastLookupStatus,
    rounds |-> f.rounds + 1,
    waits |-> IF r.retry THEN f.waits + 1 ELSE f.waits,
    slept |-> IF r.retry THEN f.slept + RetryDelay ELSE f.slept,
    drifted |-> FALSE,
    touched |-> f.touched,
    fetched |-> r ]

\* lines 107-177: one round of the loop
FetchRound ==
  /\ fetch.pc = "round"
  /\ fetch' = AfterRound(fetch, fetchRound(D, fetch.lookup, fetch.retries,
                                           fetch.lastCallAttemptUpdatedAt,
                                           fetch.lastLookupStatus))
  /\ last' = [kind |-> "round"]
  /\ UNCHANGED <<secret, lookups, attempts, profiles, now, reads, race, client>>

\* lines 178-310: the response
FetchFinish ==
  /\ fetch.pc = "respond"
  /\ fetch' = [ pc |-> "done", lookupId |-> fetch.lookupId, found |-> TRUE,
                rounds |-> fetch.rounds, waits |-> fetch.waits, slept |-> fetch.slept,
                response |-> respond(D, fetch.fetched, fetch.lookupId, Null, now + 1) ]
  /\ now' = now + 1
  /\ last' = [kind |-> "respond"]
  /\ UNCHANGED <<secret, lookups, attempts, profiles, reads, race, client>>

\* what the rows of a call attempt can look like to a reader
AttemptShapes ==
  { [status |-> JStr("scheduled"), transcript |-> Null, summary |-> Null],
    [status |-> JStr("post_call_transcription"), transcript |-> JStr("hallo"), summary |-> Null],
    [status |-> JStr("post_call_transcription"), transcript |-> JStr("hallo"),
     summary |-> JStr("kort gesprek")] }

\* the lookup row of the request shows another status
Drifted(d, lookupId, status) ==
  [ lookups |-> [i \in DOMAIN d.lookups |->
                   IF d.lookups[i].id = lookupId
                   THEN [d.lookups[i] EXCEPT !.status = status] ELSE d.lookups[i]],
    attempts |-> d.attempts,
    profiles |-> d.profiles,
    now |-> d.now ]

\* the call attempt of the request is rewritten; the trigger stamps updated_at
Touched(d, lookupId, shape) ==
  [ lookups |-> d.lookups,
    attempts |-> [i \in DOMAIN d.attempts |->
                   IF i \in AttemptSlots(d) /\ d.attempts[i].v.lookup_id = lookupId
                   THEN Row([d.attempts[i].v EXCEPT !.status = shape.status,
                                                    !.transcript = shape.transcript,
                                                    !.summary = shape.summary,
                                                    !.updated_at = d.now + 1])
                   ELSE d.attempts[i]],
    profiles |-> d.profiles,
    now |-> d.now + 1 ]

\* between two rounds the lookup row being read comes to differ, at most once a round
Drift(status) ==
  /\ fetch.pc = "round"
  /\ ~fetch.drifted
  /\ Store(Drifted(D, fetch.lookupId, status))
  /\ fetch' = [fetch EXCEPT !.drifted = TRUE]
  /\ last' = [kind |-> "drift"]
  /\ UNCHANGED <<secret, race, client>>

\* during the request the call attempt being read is rewritten, once
Touch(shape) ==
  /\ fetch.pc = "round"
  /\ ~fetch.touched
  /\ Store(Touched(D, fetch.lookupId, shape))
  /\ fetch' = [fetch EXCEPT !.touched = TRUE]
  /\ last' = [kind |-> "touch"]
  /\ UNCHANGED <<secret, race, client>>

\* lookups and webhooks set the tables up; the request then runs against a
\* datastore whose rows drift
NextRetry ==
  \/ fetch.pc = "idle" /\ LookupPhoneNumber(NUMBER_A, "started")
  \/ fetch.pc = "idle" /\ \E request \in RetryRequests : Webhook(request)
  \/ \E lookupId \in LookupIds : FetchStart(lookupId)
  \/ FetchRound
  \/ FetchFinish
  \/ \E status \in {"calling", "cached", "failed"} : Drift(status)
  \/ \E shape \in AttemptShapes : Touch(shape)

SpecRetry == InitStatus /\ [][NextRetry]_vars

(***************************************************************************)
(* The lookup form and its poller.  client.view is the React state of the  *)
(* form (result, lookupStatus, callAttempt; resultTags is not kept);       *)
(* client.pollers holds one closure per run of the polling effect: its     *)
(* lookup id, its locals stopped, intervalId, lastETag, lastSnapshotHash,  *)
(* whether its refresh listener is registered, and its requests in flight. *)
(* A request is sent, answered by the status endpoint, received (the code  *)
(* up to await response.json()) and applied (the code after it).           *)
(***************************************************************************)
ClientTime(t) == [src |-> "client", at |-> t]

\* String(value).replace(/^b['"]|['"]$/g, "")
stripQuotes(str) ==
  SubSeq(str,
         IF Len(str) >= 2 /\ CharAt(str, 1) = "b" /\ CharAt(str, 2) \in {"'", "\""} THEN 3 ELSE 1,
         IF Len(str) >= 1 /\ CharAt(str, Len(str)) \in {"'", "\""} THEN Len(str) - 1
         ELSE Len(str))

normalizeStatusForCheck(value) ==
  IF ~Truthy(value) THEN "" ELSE toLowerCase(trim(stripQuotes(value.v)))

\* "event" in payload ? normalizeStatusForCheck(String(payload.event)) : ""
payloadText(payload, key) ==
  IF payload.t = "obj" /\ HasKey(payload, key)
  THEN IF IsString(Get(payload, key)) THEN normalizeStatusForCheck(Get(payload, key)) ELSE "null"
  ELSE ""

\* buildCallAttemptSnapshot of the form: Row or Null
buildCallAttemptSnapshot(apiAttempt, profile, lookupStatus, clock) ==
  LET shouldForcePostCall == lookupStatus = "cached"
      attemptPayload == Field(apiAttempt, "payload")
      payloadBase == IF attemptPayload.t = "obj" THEN attemptPayload ELSE EmptyObject
      forced ==
        IF shouldForcePostCall
        THEN JObj([event |-> IF HasKey(payloadBase, "event") THEN Get(payloadBase, "event")
                             ELSE JStr("post_call_transcription"),
                   type |-> IF HasKey(payloadBase, "type") THEN Get(payloadBase, "type")
                            ELSE JStr("post_call_transcription"),
                   data |-> Get(payloadBase, "data")])
        ELSE payloadBase
      forcedStatus == IF shouldForcePostCall THEN JStr("post_call_transcription") ELSE Null
  IN IF apiAttempt.t # "row" /\ ~shouldForcePostCall /\ profile.t # "row" THEN Null
     ELSE Row(
       [ status |-> Coalesce(Field(apiAttempt, "status"), forcedStatus),
         elevenlabs_status |-> Coalesce(Field(apiAttempt, "elevenlabs_status"), forcedStatus),
         error_message |-> Coalesce(Field(apiAttempt, "error_message"), Null),
         summary |->
           Coalesce(Coalesce(Coalesce(Coalesce(Field(apiAttempt, "summary"),
                                               Field(profile, "summary")),
                                      Field(profile, "transcriptPreview")),
                             Field(apiAttempt, "transcript")),
                    Null),
         transcript |->
           Coalesce(Coalesce(Field(apiAttempt, "transcript"), Field(profile, "transcriptPreview")),
                    Null),
         confidence |->
           Coalesce(Coalesce(Field(apiAttempt, "confidence"),
                             IF Field(profile, "confidence").t = "num"
                             THEN Field(profile, "confidence") ELSE Null),
                    Null),
         updated_at |->
           IF apiAttempt.t = "row" THEN apiAttempt.v.updated_at
           ELSE IF profile.t = "row" THEN profile.v.lastChecked
           ELSE ClientTime(clock),
         payload |-> IF HasKey(forced, "event") \/ HasKey(forced, "type") THEN forced
                     ELSE Coalesce(attemptPayload, Null) ])

\* computeDataHash: the stable string of the relevant fields, kept as the fields
computeDataHash(snapshot) ==
  IF snapshot.t # "row" THEN [hash |-> "null"]
  ELSE [ hash |-> "fields",
         fields |-> [k \in {"status", "elevenlabs_status", "error_message", "summary",
                            "transcript", "confidence", "updated_at", "payload"} |->
                       IF snapshot.v[k] = Undefined THEN Null ELSE snapshot.v[k]] ]

areSnapshotsEqual(a, b) == computeDataHash(a) = computeDataHash(b)

PostCallWords ==
  {"post_call_transcription", "post-call-transcription", "post_call", "post-call", "transcription"}

CompletedWords == {"success", "completed", "finished", "succeeded"}

\* hasPostCallEvent of the four normalized texts
hasPostCallEvent(elevenStatusNormalized, statusNormalized, payloadEvent, payloadType) ==
  \E text \in {elevenStatusNormalized, statusNormalized, payloadEvent, payloadType} :
    \E word \in PostCallWords : includes(text, word)

\* hasCompletedStatus
hasCompletedStatus(latestStatus, nextCallAttempt, elevenStatusNormalized, statusNormalized, postCall) ==
  \/ latestStatus = "cached"
  \/ /\ nextCallAttempt.t = "row"
     /\ \/ \E text \in {elevenStatusNormalized, statusNormalized} :
             \E word \in CompletedWords : includes(text, word)
        \/ postCall

\* the pattern of extractNameFromPayload; its capture has no longest length
CLIENT_NAME_PATTERN ==
  [ triggers |-> <<"met", "u spreekt met", "dit is", "je spreekt met", "hier is", "mijn naam is",
                   "ik ben">>,
    sep |-> Whitespace, bridges |-> <<>>, chars |-> NameChars, tail |-> <<>> ]

\* cleaned.match(pattern)?.[1]: the capture of the first match, or Null
firstCapture(q) == IF Len(q) = 0 THEN Null ELSE Head(q)

matchName(cleaned) ==
  firstCapture(execAll(cleaned, 1, CLIENT_NAME_PATTERN @@ [most |-> Len(cleaned)]))

\* the loop of extractNameFromPayload over the transcript entries
RECURSIVE nameInTranscript(_)
nameOfEntry(entry, found, rest) ==
  IF found.t = "str" /\ Len(trim(found.v)) > 1 THEN JStr(trim(found.v))
  ELSE nameInTranscript(rest)
nameInTranscript(entries) ==
  IF Len(entries) = 0 THEN Null
  ELSE IF Get(toPlainObject(Head(entries)), "role") # JStr("user")
          \/ ~IsString(Get(toPlainObject(Head(entries)), "message"))
  THEN nameInTranscript(Tail(entries))
  ELSE nameOfEntry(Head(entries),
                   matchName(trim(stripSentenceEnd(Get(Head(entries), "message").v))),
                   Tail(entries))

\* the loop of extractNameFromPayload over the name fields of the metadata
RECURSIVE nameInMetadata(_, _)
nameInMetadata(metadata, nameFields) ==
  IF Len(nameFields) = 0 THEN Null
  ELSE IF /\ IsString(Get(metadata, Head(nameFields)))
          /\ Len(trim(Get(metadata, Head(nameFields)).v)) > 1
          /\ toLowerCase(trim(Get(metadata, Head(nameFields)).v)) # "onbekende beller"
  THEN JStr(trim(Get(metadata, Head(nameFields)).v))
  ELSE nameInMetadata(metadata, Tail(nameFields))

\* extractNameFromPayload of the form: the name, or Null
extractNameFromPayload(payload) ==
  LET data == toPlainObject(Get(payload, "data"))
      nameItem ==
        toPlainObject(Get(toPlainObject(Get(toPlainObject(Get(data, "analysis")),
                                            "data_collection_results")), "name"))
      spoken == nameInTranscript(IF Get(data, "transcript").t = "arr"
                                 THEN Get(data, "transcript").v ELSE <<>>)
  IN IF payload.t # "obj" THEN Null
     ELSE IF IsString(Get(nameItem, "value")) /\ Len(trim(Get(nameItem, "value").v)) > 1
     THEN JStr(trim(Get(nameItem, "value").v))
     ELSE IF spoken # Null THEN spoken
     ELSE nameInMetadata(toPlainObject(Get(data, "metadata")),
                         <<"callerName", "caller_name", "name", "personName", "person_name">>)

\* what fetchStatus reads off a response body: the snapshot and the three tests
Reading(data, nextCallAttempt) ==
  [ profile |-> data.profile,
    latestStatus |-> data.lookup.status,
    normalized |-> data.lookup.normalized,
    nextCallAttempt |-> nextCallAttempt,
    hasProfileData |->
      /\ data.profile.t = "row"
      /\ \/ Len(data.profile.v.callerName) > 0
         \/ Truthy(data.profile.v.summary)
         \/ Truthy(data.profile.v.transcriptPreview),
    hasCallAttemptData |->
      /\ nextCallAttempt.t = "row"
      /\ Truthy(nextCallAttempt.v.summary) \/ Truthy(nextCallAttempt.v.transcript),
    elevenStatusNormalized |-> normalizeStatusForCheck(Field(nextCallAttempt, "elevenlabs_status")),
    statusNormalized |-> normalizeStatusForCheck(Field(nextCallAttempt, "status")),
    derivedName |-> extractNameFromPayload(Coalesce(Field(nextCallAttempt, "payload"), Null)),
    payloadEvent |-> payloadText(Field(nextCallAttempt, "payload"), "event"),
    payloadType |-> payloadText(Field(nextCallAttempt, "payload"), "type") ]

\* hasPostCallEvent, hasCompletedStatus and shouldShowCachedResult of a reading
judge(r, postCall) ==
  [ hasPostCallEvent |-> postCall,
    hasCompletedStatus |->
      hasCompletedStatus(r.latestStatus, r.nextCallAttempt, r.elevenStatusNormalized,
                         r.statusNormalized, postCall),
    shouldShowCachedResult |->
      \/ r.latestStatus = "cached"
      \/ /\ hasCompletedStatus(r.latestStatus, r.nextCallAttempt, r.elevenStatusNormalized,
                               r.statusNormalized, postCall)
         /\ r.hasProfileData \/ r.hasCallAttemptData
      \/ postCall /\ r.hasCallAttemptData ]

\* setResult of the cached branch: prev or the cached result
cachedResult(prev, r, lookupId) ==
  IF prev.t # "row" \/ (Truthy(prev.v.lookupId) /\ prev.v.lookupId # JStr(lookupId)) THEN prev
  ELSE Row([ state |-> "cached",
             normalized |-> IF r.profile.t = "row" THEN r.profile.v.normalized ELSE r.normalized,
             callerName |->
               IF r.profile.t = "row" THEN JStr(r.profile.v.callerName)
               ELSE IF r.derivedName # Null THEN r.derivedName
               ELSE IF prev.v.state = "cached" /\ ~IsNullish(prev.v.callerName) THEN prev.v.callerName
               ELSE JStr(SENTINEL),
             message |-> Null,
             lookupId |-> JStr(lookupId) ])

\* setResult of the failed branch: prev or the not_found result
failedResult(prev, r, lookupId) ==
  IF prev.t # "row" \/ (Truthy(prev.v.lookupId) /\ prev.v.lookupId # JStr(lookupId)) THEN prev
  ELSE Row([ state |-> "not_found",
             normalized |-> r.normalized,
             callerName |-> Null,
             message |->
               Coalesce(Field(r.nextCallAttempt, "error_message"),
                        IF prev.v.state = "not_found" THEN prev.v.message
                        ELSE JStr("De AI-call is mislukt. Probeer het later opnieuw.")),
             lookupId |-> JStr(lookupId) ])

\* the React state after the code that follows await response.json()
viewAfter(view, r, j, lookupId) ==
  [ lookupStatus |->
      IF j.shouldShowCachedResult /\ r.latestStatus # "cached"
         /\ (j.hasCompletedStatus \/ j.hasPostCallEvent)
      THEN JStr("cached") ELSE JStr(r.latestStatus),
    callAttempt |->
      IF areSnapshotsEqual(view.callAttempt, r.nextCallAttempt) THEN view.callAttempt
      ELSE r.nextCallAttempt,
    result |->
      IF r.latestStatus = "failed"
      THEN failedResult(IF j.shouldShowCachedResult THEN cachedResult(view.result, r, lookupId)
                        ELSE view.result, r, lookupId)
      ELSE IF j.shouldShowCachedResult THEN cachedResult(view.result, r, lookupId)
      ELSE view.result ]

\* the locals of the closure after the code that follows await response.json()
pollerAfter(poller, r, j) ==
  [ poller EXCEPT
      !.lastSnapshotHash = computeDataHash(r.nextCallAttempt),
      !.intervalId = IF j.shouldShowCachedResult \/ r.latestStatus = "failed" THEN FALSE ELSE @ ]

Without(flights, f) == [i \in 1..(Len(flights) - 1) |-> IF i < f THEN flights[i] ELSE flights[i + 1]]

\* fetchStatus up to await fetch(...): the request leaves with the stored ETag
fetchStatus(poller) ==
  [ poller EXCEPT
      !.sent = @ + 1,
      !.flights = Append(@, [ phase |-> "sent",
                              ifNoneMatch |-> IF poller.lastETag.t = "etag" THEN poller.lastETag
                                              ELSE Null ]) ]

\* the effect of [result?.lookupId]: the closure with its first request and its timer
startPolling(lookupId) ==
  fetchStatus([ lookupId |-> lookupId, stopped |-> FALSE, intervalId |-> TRUE,
                listening |-> TRUE, lastETag |-> Null, lastSnapshotHash |-> Null,
                sent |-> 0, flights |-> <<>> ])

\* the cleanup of the effect
cleanup(poller) == [poller EXCEPT !.stopped = TRUE, !.intervalId = FALSE, !.listening = FALSE]

cleanupAll(pollers) == [i \in 1..Len(pollers) |-> cleanup(pollers[i])]

NoView == [result |-> Null, lookupStatus |-> Null, callAttempt |-> Null]

InitClient == InitStatus

\* the form is rendered
Mount ==
  /\ ~client.mounted
  /\ "pollers" \notin DOMAIN client
  /\ client' = [mounted |-> TRUE, submitting |-> FALSE, view |-> NoView, pollers |-> <<>>]
  /\ last' = [kind |-> "mount"]
  /\ UNCHANGED <<secret, lookups, attempts, profiles, now, reads, race, fetch>>

\* handleSubmit up to the call of lookupPhoneNumber: the state is reset, and with
\* result = null the effect of the lookup shown before is cleaned up
handleSubmit ==
  /\ client.mounted /\ ~client.submitting
  /\ Len(lookups) < MaxLookups
  /\ client' = [client EXCEPT !.submitting = TRUE, !.view = NoView,
                              !.pollers = cleanupAll(@)]
  /\ last' = [kind |-> "submit"]
  /\ UNCHANGED <<secret, lookups, attempts, profiles, now, reads, race, fetch>>

\* the LookupResult of the lookup recordLookup has just stored
resultOf(d, lookup) ==
  Row([ state |-> IF lookup.status = "cached" THEN "cached"
                  ELSE IF Field(getLatestCallAttempt(d, lookup.id), "status") = JStr("failed")
                  THEN "not_found" ELSE "calling",
        normalized |-> lookup.normalized,
        callerName |-> IF lookup.status = "cached"
                       THEN JStr(fetchProfileRecordByNumber(d, lookup.normalized).v.caller_name)
                       ELSE Null,
        message |-> Null,
        lookupId |-> JStr(lookup.id) ])

shown(c, res) ==
  [ c EXCEPT !.submitting = FALSE,
             !.view = [ result |-> res,
                        lookupStatus |-> JStr(IF res.v.state = "not_found" THEN "not_found"
                                              ELSE res.v.state),
                        callAttempt |-> Null ],
             !.pollers = IF c.mounted THEN Append(@, startPolling(res.v.lookupId.v)) ELSE @ ]

\* lookupPhoneNumber answers the form: setResult(res), and the effect runs for res.lookupId
Submitted(input, outcome) ==
  /\ client.mounted /\ client.submitting
  /\ recordLookup(input, outcome)
  /\ client' = shown(client,
                     resultOf([lookups |-> lookups', attempts |-> attempts',
                               profiles |-> profiles', now |-> now'],
                              lookups'[Len(lookups')]))
  /\ UNCHANGED <<secret, race, fetch>>

\* the form leaves the page: the cleanup of the effect runs
Unmount ==
  /\ client.mounted /\ ~client.submitting
  /\ client' = [client EXCEPT !.mounted = FALSE, !.pollers = cleanupAll(@)]
  /\ last' = [kind |-> "unmount"]
  /\ UNCHANGED <<secret, lookups, attempts, profiles, now, reads, race, fetch>>

\* the effect has run p times or more / its p-th closure has f requests or more
HasPoller(p) == "pollers" \in DOMAIN client /\ p <= Len(client.pollers)

HasFlight(p, f) == HasPoller(p) /\ f <= Len(client.pollers[p].flights)

Polls(p, kind) ==
  /\ client' = [client EXCEPT !.pollers[p] = fetchStatus(@)]
  /\ last' = [kind |-> kind, poller |-> p]
  /\ UNCHANGED <<secret, lookups, attempts, profiles, now, reads, race, fetch>>

\* window.setInterval(fetchStatus, ...) fires
Tick(p) ==
  /\ HasPoller(p)
  /\ client.pollers[p].intervalId
  /\ client.pollers[p].sent < MaxPolls
  /\ Polls(p, "tick")

\* the refresh-status event reaches handleRefresh
handleRefresh(p) ==
  /\ HasPoller(p)
  /\ client.pollers[p].listening
  /\ ~client.pollers[p].stopped
  /\ client.pollers[p].sent < MaxPolls
  /\ Polls(p, "refresh")

\* the status endpoint handles the request
Serve(p, f) ==
  /\ HasFlight(p, f)
  /\ client.pollers[p].flights[f].phase = "sent"
  /\ now < MaxClock
  /\ client' = [client EXCEPT !.pollers[p].flights[f] =
                  [ phase |-> "answered",
                    response |-> GET(D, client.pollers[p].lookupId,
                                     client.pollers[p].flights[f].ifNoneMatch, now + 1) ]]
  /\ now' = now + 1
  /\ last' = [kind |-> "serve", poller |-> p]
  /\ UNCHANGED <<secret, lookups, attempts, profiles, reads, race, fetch>>

received_forgetful(poller, f, response) ==
  IF response.http = 304 \/ response.http \notin 200..299
  THEN [poller EXCEPT !.lastETag = Null, !.flights = Without(@, f)]
  ELSE [poller EXCEPT !.lastETag = [t |-> "etag", v |-> response.etag],
                      !.flights[f] = [phase |-> "json", response |-> response]]

\* fetchStatus from the response to await response.json()
received(poller, f, response) ==
  IF response.http = 304 \/ response.http \notin 200..299
  THEN [poller EXCEPT !.flights = Without(@, f)]
  ELSE [poller EXCEPT !.lastETag = [t |-> "etag", v |-> response.etag],
                      !.flights[f] = [phase |-> "json", response |-> response]]

Receive(p, f) ==
  /\ HasFlight(p, f)
  /\ client.pollers[p].flights[f].phase = "answered"
  /\ client' = [client EXCEPT
                  !.pollers[p] = received(@, f, client.pollers[p].flights[f].response)]
  /\ last' = [kind |-> "receive", poller |-> p,
              status |-> client.pollers[p].flights[f].response.http]
  /\ UNCHANGED <<secret, lookups, attempts, profiles, now, reads, race, fetch>>

\* nextHash !== lastSnapshotHash, for the response of the request f of the closure
hasChanged(poller, f, clock) ==
  computeDataHash(buildCallAttemptSnapshot(poller.flights[f].response.data.callAttempt,
                                           poller.flights[f].response.data.profile,
                                           poller.flights[f].response.data.lookup.status, clock))
    # poller.lastSnapshotHash

stoppedNow_never(poller) == FALSE

\* if (stopped) return
stoppedNow(poller) == poller.stopped

applied(c, p, f, r, j) ==
  [ c EXCEPT !.view = viewAfter(@, r, j, c.pollers[p].lookupId),
             !.pollers[p] = [pollerAfter(@, r, j) EXCEPT !.flights = Without(@, f)] ]

appliedReading(c, p, f, r) ==
  applied(c, p, f, r,
          judge(r, hasPostCallEvent(r.elevenStatusNormalized, r.statusNormalized,
                                    r.payloadEvent, r.payloadType)))

\* fetchStatus after await response.json()
Apply(p, f) ==
  /\ HasFlight(p, f)
  /\ client.pollers[p].flights[f].phase = "json"
  /\ client' =
       IF stoppedNow(client.pollers[p])
       THEN [client EXCEPT !.pollers[p].flights = Without(@, f)]
       ELSE appliedReading(
              client, p, f,
              Reading(client.pollers[p].flights[f].response.data,
                      buildCallAttemptSnapshot(
                        client.pollers[p].flights[f].response.data.callAttempt,
                        client.pollers[p].flights[f].response.data.profile,
                        client.pollers[p].flights[f].response.data.lookup.status, now)))
  /\ last' = [kind |-> "apply", poller |-> p, stopped |-> client.pollers[p].stopped,
              hasChanged |-> hasChanged(client.pollers[p], f, now),
              latestStatus |-> client.pollers[p].flights[f].response.data.lookup.status]
  /\ UNCHANGED <<secret, lookups, attempts, profiles, now, reads, race, fetch>>

(***************************************************************************)
(* The progress bar of the result card (call-progress.tsx).                *)
(***************************************************************************)
ANALYSIS_KEYWORDS ==
  {"analysis", "analysing", "analyzing", "post_call", "post-call", "post_call_transcription",
   "post-call-transcription", "post_call_analysis", "post-call-analysis", "transcript",
   "transcribing", "transcription", "summary", "processing"}

COMPLETED_KEYWORDS ==
  {"complete", "completed", "finished", "success", "succeeded", "done", "resolved", "cached"}

FAILURE_KEYWORDS ==
  {"failed", "error", "timeout", "cancel", "canceled", "cancelled", "hangup", "no_answer",
   "no-answer", "busy"}

POST_CALL_KEYWORDS ==
  {"post_call", "post-call", "post_call_transcription", "post-call-transcription",
   "post_call_analysis", "post-call-analysis", "transcription", "transcribing"}

\* normalize of call-progress.tsx
normalize(value) == IF ~Truthy(value) THEN "" ELSE toLowerCase(trim(stripQuotes(value.v)))

matchesAny(value, keywords) == \E keyword \in keywords : includes(value, keyword)

\* "event" in payload ? normalize(String(payload.event)) : ""
payloadWord(payload, key) ==
  IF payload.t = "obj" /\ HasKey(payload, key)
  THEN IF IsString(Get(payload, key)) THEN normalize(Get(payload, key)) ELSE "null"
  ELSE ""

\* [a, b, ...].filter(Boolean).join(" ")
joinTruthy(q) == join(SelectSeq(q, LAMBDA x : x # ""), " ")

\* activeIndex of determineStageStates for a snapshot that is not null
activeIndexOf(statusValue, elevenStatusValue, combined, hasCompletedData, lookupStatus) ==
  IF /\ \/ lookupStatus = JStr("cached")
        \/ matchesAny(combined, COMPLETED_KEYWORDS) /\ hasCompletedData
        \/ matchesAny(combined, POST_CALL_KEYWORDS) /\ hasCompletedData
     /\ hasCompletedData
  THEN 2
  ELSE IF \/ matchesAny(combined, ANALYSIS_KEYWORDS)
          \/ matchesAny(combined, POST_CALL_KEYWORDS)
          \/ hasCompletedData
  THEN 1
  ELSE IF statusValue = "scheduled" \/ elevenStatusValue = "scheduled"
          \/ (statusValue = "" /\ elevenStatusValue = "")
  THEN 0
  ELSE 1

\* determineStageStates: activeIndex and hasFailure
determineStageStates(callAttempt, lookupStatus) ==
  IF callAttempt.t # "row" THEN [activeIndex |-> 0, hasFailure |-> FALSE]
  ELSE LET statusValue == normalize(callAttempt.v.status)
           elevenStatusValue == normalize(callAttempt.v.elevenlabs_status)
           combined ==
             joinTruthy(<< joinTruthy(<<statusValue, elevenStatusValue>>),
                           payloadWord(callAttempt.v.payload, "event"),
                           payloadWord(callAttempt.v.payload, "type") >>)
       IN [ activeIndex |->
              activeIndexOf(statusValue, elevenStatusValue, combined,
                            Truthy(callAttempt.v.summary) \/ Truthy(callAttempt.v.transcript),
                            lookupStatus),
            hasFailure |->
              lookupStatus = JStr("failed") \/ matchesAny(combined, FAILURE_KEYWORDS) ]

ClientRequests == {SignedRequest(b) : b \in {"done-c1", "failed-c1", "ended-c1"}}

Pollers == 1..MaxLookups

Flights == 1..MaxPolls

NextClient ==
  \/ Mount
  \/ handleSubmit
  \/ \E outcome \in {"started", "failed"} : Submitted(NUMBER_A, outcome)
  \/ Unmount
  \/ \E request \in ClientRequests : Webhook(request)
  \/ \E p \in Pollers : Tick(p)
  \/ \E p \in Pollers : handleRefresh(p)
  \/ \E p \in Pollers, f \in Flights : Serve(p, f)
  \/ \E p \in Pollers, f \in Flights : Receive(p, f)
  \/ \E p \in Pollers, f \in Flights : Apply(p, f)

SpecClient == InitClient /\ [][NextClient]_vars

(***************************************************************************)
(* The form polls while one webhook of the call is handled: the handler    *)
(* runs up to and including its next datastore call, and the requests of   *)
(* the poller are served in between.                                       *)
(***************************************************************************)
ConvergeRequests == {SignedRequest(b) : b \in {"done-c1", "denied-c1", "failed-c1"}}

\* the webhook arrives
Deliver(request) ==
  /\ race.phase = "idle"
  /\ Len(lookups) > 0
  /\ race' = [phase |-> "running", hs |-> <<BeginOf[<<secret, request>>]>>]
  /\ last' = [kind |-> "deliver"]
  /\ UNCHANGED <<secret, lookups, attempts, profiles, now, reads, fetch, client>>

NextConverge ==
  \/ Mount
  \/ handleSubmit
  \/ Submitted(NUMBER_A, "started")
  \/ \E request \in ConvergeRequests : Deliver(request)
  \/ StepHandler(1)
  \/ \E p \in Pollers : Tick(p)
  \/ \E p \in Pollers, f \in Flights : Serve(p, f)
  \/ \E p \in Pollers, f \in Flights : Receive(p, f)
  \/ \E p \in Pollers, f \in Flights : Apply(p, f)

SpecConverge == InitClient /\ [][NextConverge]_vars

(***************************************************************************)
(* Properties of the webhook endpoint.  A step of the webhook endpoint is  *)
(* a step after which last.kind = "webhook"; last then holds the request   *)
(* and the response, the datastore variables hold the rows after it and    *)
(* their unprimed values the rows before it.                               *)
(***************************************************************************)
\* the request of l passed the signature check
Authenticated(l) == l.kind = "webhook" /\ l.http # 401

\* the payload of l carries a non-empty transcript or summary
CarriesCompletedData(l) ==
  /\ Authenticated(l)
  /\ Truthy(NormalOf[l.request.rawBody].transcript) \/ Truthy(NormalOf[l.request.rawBody].summary)

\* the call_attempts row i belongs to the conversation the request of l names
OfConversation(row, l) ==
  /\ row.t = "row"
  /\ l.kind = "webhook"
  /\ row.v.elevenlabs_conversation_id = NormalOf[l.request.rawBody].conversationId

\* C1: an authenticated webhook whose payload carries a non-empty transcript or
\* summary never sets a lookup's status to failed: no lookup that was not failed
\* before such a webhook is failed after it.
C1_CompletedDataNeverFails ==
  [][ CarriesCompletedData(last')
        => \A i \in DOMAIN lookups :
             lookups[i].status # "failed" => lookups'[i].status # "failed" ]_vars

\* C2: cached is terminal: no step changes the status of a lookup that is cached.
C2_CachedIsTerminal ==
  [][ \A i \in DOMAIN lookups :
        lookups[i].status = "cached" => lookups'[i].status = "cached" ]_vars

\* C36: the processing of a webhook writes cached or failed as the status of a
\* lookup or leaves it as it is, and after any sequence of webhooks a lookup
\* that is cached or failed is never pending or calling again.
C36_OnlyTerminalStatusesWritten ==
  [][ /\ last'.kind = "webhook"
         => \A i \in DOMAIN lookups :
              lookups'[i].status = lookups[i].status \/ lookups'[i].status \in {"cached", "failed"}
      /\ \A i \in DOMAIN lookups :
           lookups[i].status \in {"cached", "failed"}
             => lookups'[i].status \in {"cached", "failed"} ]_vars

\* C36 happens: a lookup that was cached with its profile got the webhook of a
\* failed call and is failed, not calling
C36_CachedThenFailed ==
  /\ last.kind = "webhook" /\ last.http = 200
  /\ last.request.rawBody = "failed-c1"
  /\ \E i \in DOMAIN lookups : lookups[i].status = "failed" /\ Truthy(lookups[i].profile_id)

\* the lookups whose call attempt the step wrote
AttemptsWritten == {i \in DOMAIN attempts : attempts'[i] # attempts[i]}

\* C37: the processing of one webhook modifies the call attempt rows of at most
\* one lookup, the lookup the webhook resolved to, and never the call attempt
\* of another lookup such as a newer lookup of the same number.
C37_OneLookupPerWebhook ==
  [][ last'.kind = "webhook"
        => /\ Cardinality(AttemptsWritten) <= 1
           /\ \A i \in AttemptsWritten :
                Truthy(last'.effectiveLookupId) /\ last'.effectiveLookupId.v = LookupIdOf(i) ]_vars

\* C38: when lookupPhoneNumber returns, a lookup it stored with status calling
\* has a call attempt in status scheduled; when the outbound call did not start,
\* a failed call attempt with the error message is stored and the lookup is
\* not left in status calling.
C38_CallingHasScheduledAttempt ==
  [][ last'.kind = "lookup" /\ Len(lookups') = Len(lookups) + 1
        => LET i == Len(lookups')
           IN /\ lookups'[i].status = "calling"
                   => attempts'[i] # Null /\ Field(attempts'[i], "status") = JStr("scheduled")
              /\ (attempts'[i] # Null /\ Field(attempts'[i], "status") = JStr("failed"))
                   => /\ Truthy(Field(attempts'[i], "error_message"))
                      /\ lookups'[i].status # "calling" ]_vars

\* C39: after any sequence of webhooks of completed calls of a number, the tag
\* list of its profile holds at most one of the entity tags Bedrijf and
\* Particulier: a new classification replaces the earlier one.
C39_OneEntityTag ==
  \A k \in DOMAIN profiles :
    Cardinality({i \in 1..Len(profiles[k].tags) :
                   profiles[k].tags[i] \in {"Bedrijf", "Particulier"}}) <= 1

\* C3: when a lookup is failed and a webhook of the conversation of its call
\* attempt carries a non-empty transcript or summary, the lookup is cached after
\* that webhook.
C3_FailedRecoversToCached ==
  [][ CarriesCompletedData(last')
        => \A i \in DOMAIN lookups :
             (lookups[i].status = "failed" /\ OfConversation(attempts[i], last'))
               => lookups'[i].status = "cached" ]_vars

\* C4: once a call attempt holds a non-empty transcript or summary, no webhook of
\* its conversation clears it or overwrites it with an empty or null value.
C4_CompletedDataIsKept ==
  [][ \A i \in DOMAIN attempts :
        (Authenticated(last') /\ OfConversation(attempts[i], last'))
          => /\ Truthy(attempts[i].v.transcript) => Truthy(attempts'[i].v.transcript)
             /\ Truthy(attempts[i].v.summary) => Truthy(attempts'[i].v.summary) ]_vars

\* the fields of a call attempt that processing a webhook decides
Decided(row) ==
  IF row.t # "row" THEN <<>>
  ELSE <<row.v.status, row.v.elevenlabs_status, row.v.transcript, row.v.summary,
         row.v.confidence>>

\* C6: processing the same payload twice in a row leaves status, vendor status,
\* transcript, summary and confidence of every call attempt as they were after
\* processing it once.
C6_WebhookIsIdempotent ==
  [][ (Authenticated(last) /\ Authenticated(last') /\ last'.request = last.request)
        => \A i \in DOMAIN attempts : Decided(attempts'[i]) = Decided(attempts[i]) ]_vars

\* what the signature header of a request carries
SignatureParts(request) ==
  IF IsString(request.header) THEN headerParts(split(request.header.v, ","), <<>>) ELSE <<>>

\* the header is absent, or lacks the timestamp part or every signature part
LacksSignature(request) ==
  \/ ~IsString(request.header)
  \/ "t" \notin DOMAIN SignatureParts(request)
  \/ DOMAIN SignatureParts(request) \cap {"v0", "v1", "v2"} = {}

\* the header has both parts and no signature part is the digest of timestamp.body
SignatureMismatch(request) ==
  /\ ~LacksSignature(request)
  /\ \A k \in DOMAIN SignatureParts(request) \cap {"v0", "v1", "v2"} :
       toLowerCase(stripSha256Prefix(SignatureParts(request)[k])) #
         hmacSha256Hex(WEBHOOK_SECRET, SignatureParts(request)["t"] \o "." \o request.rawBody)

\* the requests whose signature the claim is about
BadSignatureOf ==
  [request \in Requests |-> LacksSignature(request) \/ SignatureMismatch(request)] @@ <<>>

\* no row of the datastore differs after the step
DatastoreUntouched == UNCHANGED <<lookups, attempts, profiles>>

\* the header is the one the vendor computes for the body under the secret
VendorSigned(webhookSecret, rawBody, signatureHeader) ==
  /\ Truthy(webhookSecret) /\ IsString(signatureHeader)
  /\ \E scheme \in Schemes, encoding \in Encodings :
       signatureHeader.v
         = VendorHeader(webhookSecret.v, VerifierTimestamp, rawBody, scheme, encoding)

\* C31: without a secret the verifier accepts a request only outside
\* production, and logs on each such acceptance; in production a request
\* that the vendor did not sign is never accepted.
C31_BypassOnlyInDevelopment ==
  last.kind = "verify"
    => /\ (~Truthy(last.secret) /\ last.verified) => (last.isDev /\ last.errors # <<>>)
       /\ (~last.isDev /\ ~VendorSigned(JStr(WEBHOOK_SECRET), last.rawBody, last.header))
            => ~last.verified

\* C32: with a secret configured, the header t=<ts>,v0=<sig> (or v1, v2) is
\* accepted when <sig> is the HMAC-SHA256 of "<ts>.<body>" under the secret,
\* in hex or in padded base64.
C32_HexAndBase64Accepted ==
  (last.kind = "verify" /\ VendorSigned(last.secret, last.rawBody, last.header))
    => last.verified

\* C33: with a secret configured, a request whose header is built from a valid
\* signature, timestamp and secret is accepted, and a request that differs from
\* an accepted one in one character of the body, of the header or of the
\* secret is rejected.
C33_OneByteApartRejected ==
  last.kind = "verify" /\ Truthy(last.secret)
    => /\ VendorSigned(last.secret, last.rawBody, last.header) => last.verified
       /\ \A header \in VendorHeaders :
            ( /\ verifyHmacSignature(JStr(WEBHOOK_SECRET), VerifierBody, JStr(header))
              /\ IsString(last.header)
              /\ \/ /\ OneApart(header, last.header.v)
                     /\ last.rawBody = VerifierBody /\ last.secret = JStr(WEBHOOK_SECRET)
                 \/ /\ OneApart(VerifierBody, last.rawBody)
                     /\ last.header.v = header /\ last.secret = JStr(WEBHOOK_SECRET)
                 \/ /\ OneApart(WEBHOOK_SECRET, last.secret.v)
                     /\ last.header.v = header /\ last.rawBody = VerifierBody )
              => ~last.verified

\* C7: with a secret configured, a webhook whose signature header is absent,
\* lacks the timestamp or the signature part, or does not match is answered 401
\* and makes no datastore call at all.
C7_UnsignedIsRejected ==
  [][ ( /\ last'.kind = "webhook"
        /\ Truthy(secret)
        /\ BadSignatureOf[last'.request] )
        => /\ last'.http = 401
           /\ last'.log = <<>>
           /\ DatastoreUntouched ]_vars

\* C7 happens: a completion webhook for the conversation of a waiting call
\* attempt arrives with a signature that does not match, and is answered 401
C7_MismatchRejected ==
  /\ last.kind = "webhook"
  /\ Truthy(secret)
  /\ SignatureMismatch(last.request)
  /\ last.request.rawBody = "done-c1"
  /\ \E i \in DOMAIN attempts : OfConversation(attempts[i], last)
  /\ last.http = 401

\* C8: an authenticated webhook whose body is not JSON, or whose payload has no
\* conversation id at any probed location, is answered 400 and leaves every
\* lookup, call attempt and profile unchanged.
C8_MalformedIsRejected ==
  [][ ( /\ Authenticated(last')
        /\ \/ ~JSONparse(last'.request.rawBody).ok
           \/ ~Truthy(NormalOf[last'.request.rawBody].conversationId) )
        => /\ last'.http = 400
           /\ last'.log = <<>>
           /\ DatastoreUntouched ]_vars

\* C8 happens: a signed completion webhook whose conversation id is a number,
\* not a string, is answered 400 while a lookup is waiting for its call
C8_MissingIdRejected ==
  /\ Authenticated(last)
  /\ Truthy(secret)
  /\ last.request.rawBody = "noid"
  /\ \E i \in DOMAIN lookups : lookups[i].status = "calling"
  /\ last.http = 400

\* the ids of the rows of the tables phone_lookups and call_attempts
LookupRowIds(q) == {q[i].id : i \in DOMAIN q}

AttemptRowIds(q) == {q[i].v.id : i \in {j \in DOMAIN q : q[j].t = "row"}}

\* C28: processing a webhook creates and deletes no lookup and no call attempt:
\* the ids of the lookups and of the call attempts are the same before and after,
\* and every lookup keeps its number.
C28_WebhookKeepsRows ==
  [][ last'.kind = "webhook"
        => /\ LookupRowIds(lookups') = LookupRowIds(lookups)
           /\ AttemptRowIds(attempts') = AttemptRowIds(attempts)
           /\ Len(lookups') = Len(lookups) /\ Len(attempts') = Len(attempts)
           /\ \A i \in DOMAIN lookups : lookups'[i].normalized = lookups[i].normalized ]_vars

\* C28 happens: the completion webhook of the first of two lookups has written
\* the call attempt, the profile of the number and the status of the lookup
C28_CompletionWritten ==
  /\ last.kind = "webhook" /\ last.http = 200
  /\ last.request.rawBody = "done-c1"
  /\ Len(lookups) = 2
  /\ lookups[1].status = "cached" /\ Truthy(lookups[1].profile_id)
  /\ attempts[1].v.status = JStr("post_call_transcription")
  /\ attempts[1].v.updated_at = now
  /\ lookups[1].normalized \in DOMAIN profiles

\* the payload names a conversation, and the datastore d holds no lookup for it:
\* none under the lookup id of the payload, no call attempt of the conversation,
\* no lookup of the number of the payload
Unresolvable(n, d) ==
  /\ Truthy(n.conversationId)
  /\ ~IsString(n.lookupId) \/ getLookupById(d, n.lookupId.v).t # "row"
  /\ getCallAttemptByConversationId(d, n.conversationId.v).t # "row"
  /\ ~Truthy(n.normalizedNumberPre)
       \/ getLatestLookupByNormalized(d, n.normalizedNumberPre.v).t # "row"

\* C29: an authenticated webhook with a conversation id for which no lookup
\* can be resolved is answered 200 (success) and leaves every lookup, call
\* attempt and profile unchanged.
C29_UnresolvedIsAccepted ==
  [][ ( /\ Authenticated(last')
        /\ JSONparse(last'.request.rawBody).ok
        /\ Unresolvable(NormalOf[last'.request.rawBody], D) )
        => /\ last'.http = 200
           /\ last'.note = "Lookup id missing"
           /\ DatastoreUntouched ]_vars

\* C29 happens: while a call is waiting, a webhook of a conversation that no
\* call attempt has is accepted
C29_StrangerAccepted ==
  /\ Authenticated(last)
  /\ last.request.rawBody = "unknown"
  /\ Unresolvable(NormalOf["unknown"], D)
  /\ last.http = 200
  /\ Len(lookups) = 1 /\ lookups[1].status = "calling"
  /\ attempts[1].t = "row"

\* C30: when a write of the webhook endpoint fails (a call-attempt update, the
\* profile upsert or the lookup-status update returns an error), the handler
\* goes on to its end and answers 200 (success): the calls that follow the
\* failed one are made, and no error status reaches the provider.
C30_WriteFailureIsSwallowed ==
  [][ (Authenticated(last') /\ last'.down # {})
        => /\ last'.http = 200
           /\ last'.note \in {"", "Lookup id missing", "Lookup not found"}
           /\ (Truthy(last'.effectiveLookupId)
                 /\ Truthy(NormalOf[last'.request.rawBody].lookupStatus)
                 /\ last'.note = "")
                => last'.log[Len(last'.log)] = "updateLookupStatus" ]_vars

\* C30 happens: the profile upsert of a completion webhook failed, the webhook
\* was answered 200 and the lookup is cached without a profile
C30_UpsertFailed ==
  /\ Authenticated(last) /\ last.http = 200
  /\ "upsertPhoneProfile" \in last.down
  /\ \E i \in 1..Len(last.log) : last.log[i] = "upsertPhoneProfile"
  /\ profiles = <<>>
  /\ Len(lookups) = 1 /\ lookups[1].status = "cached" /\ lookups[1].profile_id = Null

\* the failure keywords of the classification
FailureWords == {"error", "timeout", "cancelled", "busy", "no_answer"}

\* the vendor status or the event of the payload of l contains a failure keyword
NamesFailure(l) ==
  /\ Authenticated(l)
  /\ \E text \in {NormalOf[l.request.rawBody].effectiveStatus, NormalOf[l.request.rawBody].event} :
       IsString(text) /\ \E word \in FailureWords : includes(toLowerCase(text.v), word)

\* C26: a webhook without transcript or summary whose vendor status or event
\* contains a failure keyword sets the lookup it resolves to failed (a lookup
\* that is cached already is left to C2).
C26_FailureKeywordFails ==
  [][ (NamesFailure(last') /\ ~CarriesCompletedData(last') /\ Truthy(last'.effectiveLookupId))
        => \A i \in DOMAIN lookups :
             (JStr(lookups[i].id) = last'.effectiveLookupId /\ lookups[i].status # "cached")
               => lookups'[i].status = "failed" ]_vars

\* the body that carries the bare status of a body with a byte-string status
BareOf == "wrapped-c1" :> "success-c1"

StatusIn(b) == Get(Get(PayloadOf[b], "conversation"), "status")

LookupStatuses(q) == [i \in DOMAIN q |-> q[i].status]

\* C27: a status in byte-string notation is read as the bare status in lower
\* case: the webhook leaves every lookup in the status in which the webhook
\* with the bare status leaves it, and the form and the progress bar
\* normalize both to the same text.
C27_ByteStringReadsAsBare ==
  [][ (Authenticated(last') /\ last'.request.rawBody \in DOMAIN BareOf)
        => /\ LookupStatuses(lookups') =
                LookupStatuses(POST(secret, SignedRequest(BareOf[last'.request.rawBody]), D).d.lookups)
           /\ normalize(StatusIn(last'.request.rawBody)) =
                toLowerCase(StatusIn(BareOf[last'.request.rawBody]).v)
           /\ normalizeStatusForCheck(StatusIn(last'.request.rawBody)) =
                toLowerCase(StatusIn(BareOf[last'.request.rawBody]).v) ]_vars

(***************************************************************************)
(* Properties of the status endpoint.  reads.cur is the response to the    *)
(* latest read and reads.prev the response to the read before it when both *)
(* were of the same lookup; reads.unchanged tells that no row was written  *)
(* between the two.                                                        *)
(***************************************************************************)
\* both responses exist: the lookup was found both times
TwoReads == reads.cur.http \in {200, 304} /\ reads.prev.http \in {200, 304}

\* the fields of a response the client shows
ClientVisible(response) ==
  [ lookupStatus |-> response.data.lookup.status,
    profile |-> response.data.profile,
    callAttemptStatus |-> Field(response.data.callAttempt, "status"),
    transcript |-> Field(response.data.callAttempt, "transcript"),
    summary |-> Field(response.data.callAttempt, "summary"),
    updated_at |-> Field(response.data.callAttempt, "updated_at") ]

\* C9: two reads of a lookup that differ in a client-visible field (lookup
\* status, profile, call-attempt status, transcript, summary, updated_at) have
\* different ETags.
C9_ETagIsSensitive ==
  (TwoReads /\ ClientVisible(reads.cur) # ClientVisible(reads.prev))
    => reads.cur.etag # reads.prev.etag

\* C10: two successive reads of a lookup with no datastore change between them
\* have the same ETag, also when the lookup has no call attempt.
C10_ETagIsStable ==
  (TwoReads /\ reads.unchanged) => reads.cur.etag = reads.prev.etag

\* the lookup the latest read asked for is in the table
ReadOfExisting ==
  last.kind = "read" /\ \E i \in DOMAIN lookups : lookups[i].id = last.lookupId

\* C11: for an existing lookup the status endpoint answers 304 with an empty body
\* exactly when If-None-Match equals the ETag computed for the read, and otherwise
\* 200 with the body {lookup, callAttempt, profile}; both carry the computed ETag
\* and Cache-Control: no-cache, no-store, must-revalidate.  For a lookup id that
\* does not exist it answers 404.
C11_ConditionalRead ==
  last.kind = "read"
    => IF ReadOfExisting
       THEN /\ reads.cur.http = IF last.ifNoneMatch = [t |-> "etag", v |-> reads.cur.etag]
                                THEN 304 ELSE 200
            /\ reads.cur.http = 304 => reads.cur.body = Null
            /\ reads.cur.http = 200
                 => /\ reads.cur.body.t = "row"
                    /\ DOMAIN reads.cur.body.v = {"lookup", "callAttempt", "profile"}
                    /\ reads.cur.body.v.lookup.id = last.lookupId
            /\ reads.cur.headers.ETag = reads.cur.etag
            /\ reads.cur.headers.CacheControl = "no-cache, no-store, must-revalidate"
       ELSE reads.cur.http = 404

\* C11 happens: a conditional read of a lookup that a webhook has completed or
\* failed is answered 304, the read before it 200
C11_NotModifiedReached ==
  /\ ReadOfExisting
  /\ reads.cur.http = 304
  /\ reads.prev.http = 200
  /\ \E i \in DOMAIN lookups : lookups[i].id = last.lookupId /\ lookups[i].status # "calling"

(***************************************************************************)
(* Properties of the retry loop of the status endpoint.                    *)
(***************************************************************************)
\* C12: whatever the datastore answers, a status request runs at most 10 fetch
\* rounds and at most 9 waits of one second after the initial 500 ms (never more
\* than 10 s of sleep in all); while it is in the loop every round so far was
\* followed by a wait and fewer than 10 rounds were run, so the loop ends; and
\* the answer for an existing lookup is a 200 or a 304, never an error.
C12_RetryLoopIsBounded ==
  fetch.pc # "idle" =>
    /\ fetch.rounds <= maxRetries
    /\ fetch.waits <= maxRetries - 1
    /\ fetch.slept <= 10000
    /\ fetch.found => fetch.slept = 500 + fetch.waits * 1000
    /\ fetch.pc = "round" => fetch.rounds = fetch.waits /\ fetch.rounds < maxRetries
    /\ fetch.pc = "respond" => fetch.rounds = fetch.waits + 1
    /\ (fetch.pc = "done" /\ fetch.found) =>
         /\ fetch.response.http \in {200, 304}
         /\ fetch.response.body.t = "row"
         /\ fetch.response.body.v.lookup.id = fetch.lookupId

\* the budget is used up by a datastore that never converges, and the request is answered
C12_BudgetExhausted ==
  /\ fetch.pc = "done"
  /\ fetch.found
  /\ fetch.rounds = maxRetries
  /\ fetch.waits = maxRetries - 1
  /\ fetch.response.http = 200

\* the rows a round of the request reads
RoundLookup == getLookupById(D, fetch.lookupId)
RoundAttempt == getLatestCallAttempt(D, fetch.lookupId)

\* (a) the lookup status changed since the previous round of this request
StatusChanged == RoundLookup.t = "row" /\ RoundLookup.v.status # fetch.lastLookupStatus
\* (b) the lookup is cached while the call attempt is still scheduled
CachedButScheduled ==
  /\ RoundLookup.t = "row" /\ RoundLookup.v.status = "cached"
  /\ RoundAttempt.t = "row" /\ RoundAttempt.v.status = JStr("scheduled")
\* (c) the call attempt is in post_call_transcription without summary or transcript
PostCallButEmpty ==
  /\ RoundAttempt.t = "row" /\ RoundAttempt.v.status = JStr("post_call_transcription")
  /\ (~Truthy(RoundAttempt.v.summary) \/ ~Truthy(RoundAttempt.v.transcript))
Stale == StatusChanged \/ CachedButScheduled \/ PostCallButEmpty

RoundStep == fetch.pc = "round" /\ fetch'.pc \in {"round", "respond"} /\ fetch'.rounds = fetch.rounds + 1

\* C13: in every round, if a staleness predicate holds and fewer than 9 waits
\* were made the request waits and fetches again; if none holds it leaves the
\* loop without a wait.
C13_RoundsFollowStaleness ==
  [][RoundStep =>
       /\ (Stale /\ fetch.waits < maxRetries - 1) =>
            (fetch'.pc = "round" /\ fetch'.waits = fetch.waits + 1)
       /\ ~Stale => (fetch'.pc = "respond" /\ fetch'.waits = fetch.waits)]_vars

(***************************************************************************)
(* Properties of the identity resolver.  What a payload says is read from  *)
(* the payload itself: the value of an item of its data collection results.*)
(***************************************************************************)
collectedValue(b, key) ==
  Get(toPlainObject(Get(toPlainObject(Get(PayloadRoots(PayloadOf[b]).analysis,
                                          "data_collection_results")), key)), "value")

\* the profiles a step has written: the numbers whose row is new or differs
WrittenProfiles == {k \in DOMAIN profiles' : k \notin DOMAIN profiles \/ profiles'[k] # profiles[k]}

\* a webhook with a body of the set was handled and wrote a profile
ProfileWrittenFor(bodies) ==
  /\ last'.kind = "webhook"
  /\ last'.request.rawBody \in bodies
  /\ WrittenProfiles # {}

ConsentDenied == {b \in RawBodies : collectedValue(b, "consent") = JBool(FALSE)}

\* C14: whenever the structured agent output of the payload has consent = false,
\* with or without a name beside it, the caller name written to the profile
\* is the sentinel "Onbekende beller", whatever the transcript, the metadata,
\* the summary or the stored profile say.
C14_ConsentDenialForcesSentinel ==
  [][ProfileWrittenFor(ConsentDenied) =>
       \A k \in WrittenProfiles : profiles'[k].caller_name = SENTINEL]_vars

\* the aliases and the tags stored for a number, none if it has no profile
StoredAka(k) == IF k \in DOMAIN profiles THEN {profiles[k].aka[i] : i \in 1..Len(profiles[k].aka)} ELSE {}
StoredTags(k) == IF k \in DOMAIN profiles THEN {profiles[k].tags[i] : i \in 1..Len(profiles[k].tags)} ELSE {}

\* C35: when the structured agent output has consent = false the cascade
\* stops: the profile written for the call has the sentinel as its caller
\* name, no alias that was not stored before, and no entity tag that was not
\* stored before.
C35_ConsentDenialStopsCascade ==
  [][ProfileWrittenFor(ConsentDenied) =>
       \A k \in WrittenProfiles :
         /\ profiles'[k].caller_name = SENTINEL
         /\ \A i \in 1..Len(profiles'[k].aka) : profiles'[k].aka[i] \in StoredAka(k)
         /\ \A i \in 1..Len(profiles'[k].tags) : profiles'[k].tags[i] \in StoredTags(k)]_vars

\* the structured output has consent = true, a name of at least one character
\* and a boolean organisation flag
Tier1Bodies ==
  {b \in RawBodies :
     /\ convertToBoolean(collectedValue(b, "consent")) = JBool(TRUE)
     /\ IsString(collectedValue(b, "name")) /\ Len(collectedValue(b, "name").v) > 0
     /\ convertToBoolean(collectedValue(b, "organisation")).t = "bool"}

\* the row agrees with the structured output of the body, the name read as given
FollowsAgentOutput(row, b, name) ==
  /\ row.caller_name = name
  /\ \E i \in 1..Len(row.tags) :
       row.tags[i] = IF convertToBoolean(collectedValue(b, "organisation")) = JBool(TRUE)
                     THEN "Bedrijf" ELSE "Particulier"
  /\ row.name_source = JStr("elevenlabs")
  /\ row.entity_type_source = JStr("elevenlabs")

\* C15 as stated: with consent = true, a non-empty name N and a boolean
\* organisation flag the profile gets callerName = N, the tag of the flag and
\* both sources "elevenlabs", whatever else the payload or the stored profile say.
C15_AgentOutputWinsAsGiven ==
  [][\A b \in Tier1Bodies :
       ProfileWrittenFor({b}) =>
         \A k \in WrittenProfiles :
           FollowsAgentOutput(profiles'[k], b, collectedValue(b, "name").v)]_vars

\* C15 amended: the same when the name, with its whitespace collapsed and the
\* punctuation around it stripped, keeps at least two characters; callerName is
\* that cleaned name.
C15_AgentOutputWins ==
  [][\A b \in Tier1Bodies :
       (ProfileWrittenFor({b}) /\ IsString(cleanCallerName(collectedValue(b, "name")))) =>
         \A k \in WrittenProfiles :
           FollowsAgentOutput(profiles'[k], b, cleanCallerName(collectedValue(b, "name")).v)]_vars

\* a profile that held other names was rewritten from a structured output
\* whose name needed cleaning
C15_CleanedNameStored ==
  /\ last.kind = "webhook" /\ last.request.rawBody = "padded-c1"
  /\ NUMBER_A \in DOMAIN profiles
  /\ profiles[NUMBER_A].caller_name = "Kees Bakker"
  /\ profiles[NUMBER_A].caller_name # collectedValue("padded-c1", "name").v
  /\ profiles[NUMBER_A].tags = <<"Particulier", "Bedrijf">>
  /\ profiles[NUMBER_A].last_checked > 2

\* the number was submitted and its call is scheduled: the lookup is calling,
\* its call attempt is scheduled and the number has no profile
FreshlySubmitted ==
  /\ Len(lookups) = 1
  /\ lookups[1].normalized = NUMBER_A /\ lookups[1].status = "calling"
  /\ attempts[1].t = "row" /\ attempts[1].v.status = JStr("scheduled")
  /\ profiles = <<>>

\* C34: after +31612345678 is submitted and its lookup is calling with a
\* scheduled call attempt, the post_call_transcription webhook whose transcript
\* has the caller say "mijn naam is Jan de Vries", without structured output,
\* stores a profile with callerName "Jan de Vries" and the tag Particulier, and
\* sets the lookup to cached with its reference to that profile.
C34_SpokenNameScenario ==
  [][ (last'.kind = "webhook" /\ last'.request.rawBody = "spoken-c1" /\ FreshlySubmitted)
        => /\ last'.http = 200
           /\ NUMBER_A \in DOMAIN profiles'
           /\ profiles'[NUMBER_A].caller_name = "Jan de Vries"
           /\ \E i \in 1..Len(profiles'[NUMBER_A].tags) :
                profiles'[NUMBER_A].tags[i] = "Particulier"
           /\ lookups'[1].status = "cached"
           /\ lookups'[1].profile_id = JStr(profiles'[NUMBER_A].id) ]_vars

\* C34 happens: the first webhook after the submission was the one of the
\* caller who said his name, and the lookup is cached with the profile
C34_JanDeVriesStored ==
  /\ last.kind = "webhook" /\ last.request.rawBody = "spoken-c1"
  /\ Len(lookups) = 1 /\ lookups[1].status = "cached"
  /\ NUMBER_A \in DOMAIN profiles
  /\ profiles[NUMBER_A].caller_name = "Jan de Vries"
  /\ profiles[NUMBER_A].aka = <<>>
  /\ now = 5

\* the name is absent for the resolver: nothing is left of it, or a generic label
IsGenericName(name) ==
  \/ ~IsString(cleanCallerName(JStr(name)))
  \/ toLowerCase(cleanCallerName(JStr(name)).v) \in GENERIC_CALLER_LABELS

\* C16: no name that normalizes to an entry of the denylist of generic labels
\* is stored as the callerName of a profile, from whichever tier it comes; the
\* only generic value stored is the sentinel.
C16_GenericNamesAreNeverStored ==
  \A k \in DOMAIN profiles :
    IsGenericName(profiles[k].caller_name) => profiles[k].caller_name = SENTINEL

\* the alias of a stored profile is kept by the row that replaces it, or it is
\* the new caller name or a generic label
KeptBy(alias, row) ==
  \/ alias = row.caller_name
  \/ IsGenericName(alias)
  \/ \E j \in 1..Len(row.aka) : row.aka[j] = alias

\* C19: when a completed call updates an existing profile, every alias stored
\* for it, other than the new caller name or a generic label, is still in the
\* alias list afterwards.
C19_AliasesAreMerged ==
  [][last'.kind = "webhook" =>
       \A k \in WrittenProfiles \cap DOMAIN profiles :
         \A i \in 1..Len(profiles[k].aka) : KeptBy(profiles[k].aka[i], profiles'[k])]_vars

\* the lookups a step has set to cached
SetToCached ==
  {i \in 1..Len(lookups) : lookups'[i] # lookups[i] /\ lookups'[i].status = "cached"}

\* C17: whenever the processing of a webhook sets the status of a lookup to
\* cached, a profile of the lookup's own normalized number exists afterwards and
\* the profile reference of the lookup points to it.
C17_CachedLookupHasItsProfile ==
  [][last'.kind = "webhook" =>
       \A i \in SetToCached :
         /\ lookups'[i].normalized \in DOMAIN profiles'
         /\ lookups'[i].profile_id = JStr(profiles'[lookups'[i].normalized].id)]_vars

\* every profile is the one row of its number
OneProfilePerNumber ==
  /\ \A k \in DOMAIN profiles : profiles[k].normalized = k
  /\ \A k1, k2 \in DOMAIN profiles : profiles[k1].id = profiles[k2].id => k1 = k2

\* C18: there is at most one profile per normalized number, and a webhook
\* creates or changes a profile only when the lookup status it derives is
\* cached; a webhook that derives failed or no status leaves every profile as it is.
C18_ProfilesAreWrittenWhenCached ==
  /\ []OneProfilePerNumber
  /\ [][last'.kind = "webhook" =>
          \/ WrittenProfiles = {} /\ DOMAIN profiles' = DOMAIN profiles
          \/ NormalOf[last'.request.rawBody].lookupStatus = JStr("cached")]_vars

\* a failed call was reported for a number that has a profile
C18_FailedAfterProfile ==
  /\ last.kind = "webhook" /\ last.request.rawBody = "failed-c1" /\ last.http = 200
  /\ NormalOf["failed-c1"].lookupStatus = JStr("failed")
  /\ DOMAIN profiles = {NUMBER_A, NUMBER_B}
  /\ \E i \in 1..Len(lookups) : lookups[i].status = "failed"

(***************************************************************************)
(* Properties of the poller of the lookup form.  The state of the client   *)
(* is the React state client.view; lastETag and lastSnapshotHash are       *)
(* locals of the closure that nothing reads once the closure is stopped.   *)
(***************************************************************************)
\* the step is a step of the closure p of the effect
StepOf(p) == last'.kind \in {"tick", "refresh", "receive", "apply"} /\ last'.poller = p

\* C20: once the cleanup of the effect has run, because the form unmounts or
\* its lookup id changes, no response of a request of that effect, in flight or
\* later, changes the state of the form, and the effect sends no further request.
C20_StoppedPollerIsSilent ==
  [][\A p \in Pollers :
       (HasPoller(p) /\ client.pollers[p].stopped) =>
         /\ client'.pollers[p].sent = client.pollers[p].sent
         /\ client'.pollers[p].stopped
         /\ ~client'.pollers[p].intervalId
         /\ StepOf(p) => client'.view = client.view]_vars

\* the response of a request of the lookup shown before arrived after the form
\* showed another lookup, and was dropped
C20_LateResponseDropped ==
  /\ last.kind = "apply" /\ last.stopped
  /\ client.mounted
  /\ client.view.result.t = "row"
  /\ client.view.result.v.lookupId # JStr(client.pollers[last.poller].lookupId)
  /\ client.pollers[last.poller].lastETag.t = "etag"
  /\ client.view.lookupStatus = JStr("cached")
  /\ lookups[1].status = "failed"

\* the locals of a closure that outlive a request
Locals(poller) ==
  [ stopped |-> poller.stopped, intervalId |-> poller.intervalId,
    listening |-> poller.listening, lastETag |-> poller.lastETag,
    lastSnapshotHash |-> poller.lastSnapshotHash ]

\* C21: a 304 response changes no state of the form and no local of the
\* poller, which keeps its stored ETag; a 200 response whose snapshot has the
\* hash of the snapshot applied last leaves the call-attempt state as it is.
C21_UnchangedSnapshotChangesNothing ==
  [][/\ last'.kind = "receive" /\ last'.status = 304
          => /\ client'.view = client.view
             /\ Locals(client'.pollers[last'.poller]) = Locals(client.pollers[last'.poller])
             /\ client.pollers[last'.poller].lastETag.t = "etag"
     /\ last'.kind = "apply" /\ ~last'.stopped /\ ~last'.hasChanged
          => client'.view.callAttempt = client.view.callAttempt]_vars

\* a poller has got 304 for its second request, after the completion webhook
\* of its lookup had been handled and shown
C21_NotModifiedReceived ==
  /\ last.kind = "receive" /\ last.status = 304
  /\ client.pollers[last.poller].lastETag.t = "etag"
  /\ client.pollers[last.poller].sent = 2
  /\ client.view.callAttempt.t = "row"
  /\ client.view.result.t = "row" /\ client.view.result.v.state = "cached"

\* the webhook delivered has been answered
Answered == race.phase = "running" /\ race.hs[1].pc = "done"

\* the poller p of a mounted form has cleared its timer and awaits no response
AtRest(p) ==
  /\ HasPoller(p)
  /\ ~client.pollers[p].stopped
  /\ ~client.pollers[p].intervalId
  /\ client.pollers[p].flights = <<>>

\* the lookup of the poller p is cached, and this is the name of its profile
StoredName(p) ==
  LET lookup == getLookupById(D, client.pollers[p].lookupId)
  IN IF lookup.t = "row" /\ lookup.v.status = "cached" /\ Truthy(lookup.v.profile_id)
     THEN JStr(getProfileById(D, lookup.v.profile_id.v).v.caller_name)
     ELSE Null

\* C22: while the writes of a completed-call webhook (call attempt, profile,
\* lookup status) interleave with the polls of the form, the form does not
\* clear its timer on a response whose lookup status is still "calling"; and
\* once the webhook is answered and the poller is at rest, the form shows the
\* caller name of the stored profile of its lookup.
C22_ConvergesOnSuccess ==
  /\ [](\A p \in Pollers :
          (Answered /\ AtRest(p) /\ StoredName(p) # Null)
            => /\ client.view.result.t = "row"
               /\ client.view.result.v.state = "cached"
               /\ client.view.result.v.callerName = StoredName(p))
  /\ [][ (last'.kind = "apply" /\ ~last'.stopped /\ last'.latestStatus = "calling")
           => client'.pollers[last'.poller].intervalId
                = client.pollers[last'.poller].intervalId ]_vars

\* the lookup of the poller p has failed
Failed(p) ==
  LET lookup == getLookupById(D, client.pollers[p].lookupId)
  IN lookup.t = "row" /\ lookup.v.status = "failed"

\* C23: while the writes of a failure webhook interleave with the polls of the
\* form, which sends its last ETag: once the lookup is failed and the webhook
\* is answered, a request of a poller that still polls and awaits nothing else
\* is answered 200 with lookup status "failed"; and on a response with that
\* status the form shows the failure and clears its timer.
C23_ConvergesOnFailure ==
  /\ [][ \A p \in Pollers :
           (/\ last'.kind = "serve" /\ last'.poller = p
            /\ Answered /\ Failed(p)
            /\ ~client.pollers[p].stopped /\ client.pollers[p].intervalId
            /\ Len(client.pollers[p].flights) = 1)
             => /\ client'.pollers[p].flights[1].response.http = 200
                /\ client'.pollers[p].flights[1].response.data.lookup.status = "failed" ]_vars
  /\ [][ (last'.kind = "apply" /\ ~last'.stopped /\ last'.latestStatus = "failed")
           => /\ ~client'.pollers[last'.poller].intervalId
              /\ client'.view.result.t = "row"
              /\ client'.view.result.v.state = "not_found" ]_vars

\* C24: the poller of an active lookup has at most one status request in
\* flight: a tick of the timer or a manual refresh sends no request while an
\* earlier request of the poller is unanswered.
C24_OneRequestInFlight ==
  \A p \in Pollers :
    HasPoller(p) /\ ~client.pollers[p].stopped => Len(client.pollers[p].flights) <= 1

BothAnswered ==
  race.phase = "running" /\ race.hs[1].pc = "done" /\ race.hs[2].pc = "done"

\* what the claim compares: the call attempt of the conversation and its lookup
FinalState(d, c) ==
  [ status |-> getCallAttemptByConversationId(d, c).v.status,
    transcript |-> getCallAttemptByConversationId(d, c).v.transcript,
    summary |-> getCallAttemptByConversationId(d, c).v.summary,
    lookupStatus |->
      getLookupById(d, getCallAttemptByConversationId(d, c).v.lookup_id).v.status ]

\* the datastore after the initiation webhook and then the completion webhook
InitiationThenCompletion(d, c) ==
  POST(secret, SignedRequest("done-" \o c), POST(secret, SignedRequest("init-" \o c), d).d).d

\* C5: when the initiation and the completion webhook of one conversation are
\* both handled, in either order or interleaved, the call attempt's status,
\* transcript and summary and the lookup's status end as they do when the
\* initiation webhook is handled first and the completion webhook after it.
C5_OrderIndependent ==
  BothAnswered
    => FinalState(D, race.c) = FinalState(InitiationThenCompletion(race.base, race.c), race.c)
====
